---- MODULE Spec2Model ----
(***************************************************************************)
(* Model of the prompt templating pipeline (PromptProcessor and its        *)
(* processors, preparePrompt) and of the action flow around it             *)
(* (ActionExecutor.executeAction, ContextEnhancer.enhanceWithContext).     *)
(*                                                                         *)
(* A JavaScript string is a sequence of one-character strings, so that     *)
(* includes, indexOf, substring, replace and trim are computed on          *)
(* character offsets exactly as the code computes them.                    *)
(***************************************************************************)
EXTENDS Integers, Sequences, FiniteSets, TLC

VARIABLES
    template,       \* preparePrompt argument prompt
    selectedText,   \* preparePrompt argument selectedText
    context,        \* preparePrompt argument context
    app,            \* whether an App handle was passed to preparePrompt
    tagCount,       \* number of distinct tags in the vault (tag collaborator)
    fileTagCount,   \* number of tags of the current file (0 without a file)
    pc,             \* position inside preparePrompt / PromptProcessor
    path,           \* "sync" (processSync) or "async" (process)
    result,         \* the ProcessResult being built
    env,            \* what executeAction finds: files, providers, status bar item
    action,         \* the LocalGPTAction being run and the text it is run on
    defaults,       \* settings.defaults.showModelInfo / showPerformance
    apc,            \* position inside executeAction / enhanceWithContext
    aborted,        \* abortController.signal.aborted of the action
    bar,            \* StatusBarManager: item shown, total and completed steps
    calls,          \* calls made so far to the progress host and to the rag module
    enhanced,       \* the value enhanceWithContext returned (UNDEF before)
    thrown,         \* the step of enhanceWithContext that threw, and the signal then
    notices,        \* the error notices shown to the user
    display,        \* the result of getDisplayOptions
    request,        \* the inference request: issued or not, and its prompt
    failedAt,       \* the step whose error reached the catch of executeAction
    stream,         \* the chunk handler: its state and the text accumulated so far
    listener,       \* the "abort" listener of executeAction is registered
    preview,        \* the text the spinner shows while the stream is open
    inserted,       \* what insertText put into the editor
    peer,           \* a second executeAction running on the same plugin
    links,          \* the result of extractImageLinks on the selected text
    estimate,       \* a text and the result of estimateTokens on it
    bus,            \* an EventBus: its handlers, and the emits in progress
    container,      \* a ServiceContainer: services, instances, resolving
    tagCache,       \* the vault, tagStatsCache, and the last calls of getAllTagStats
    abortControllers \* plugin.abortControllers: the controllers in the list, by action

pvars == <<template, selectedText, context, app, tagCount, fileTagCount, pc, path, result>>

xvars == <<stream, listener, preview, inserted, peer>>

kvars == <<bus, container, tagCache>>

svars == <<kvars, abortControllers>>

uvars == <<links, estimate, svars>>

avars == <<env, action, defaults, apc, aborted, bar, calls, enhanced, thrown, notices,
           display, request, failedAt, xvars, uvars>>

vars == <<pvars, avars>>

----------------------------------------------------------------------------
(* Bounds of the model *)

\* number of tokens (markers, value suffixes, plain characters) in a template
MaxTplTokens == 3

\* number of tokens in the prompt and in the system prompt of an action
MaxOptTokens == 2

\* number of files linked from the selected text
MaxLinked == 2

\* number of progress steps the vector store reports
MaxSteps == 2

\* number of chunks the inference stream delivers
MaxChunks == 2

\* number of tags in the vault
MaxTags == 2

\* number of tokens (links, plain characters) in a text with links
MaxLinkTokens == 3

\* number of characters of a text whose tokens are estimated
MaxEstimateLen == 10

\* once wrappers made, emit calls made, and handlers held for one event
MaxOnce == 2

MaxEmits == 2

MaxHandlers == 2

\* calls of register and registerInstance, and instances made
MaxRegs == 3

MaxMade == 2

----------------------------------------------------------------------------
(* Marker literals *)

SELECTION_KEYWORD == <<"{","{","=","S","E","L","E","C","T","I","O","N","=","}","}">>
CONTEXT_KEYWORD == <<"{","{","=","C","O","N","T","E","X","T","=","}","}">>
CONTEXT_CONDITION_START == <<"{","{","=","C","O","N","T","E","X","T","_","S","T","A","R","T","=","}","}">>
CONTEXT_CONDITION_END == <<"{","{","=","C","O","N","T","E","X","T","_","E","N","D","=","}","}">>
CURRENT_TIME_KEYWORD == <<"{","{","=","C","U","R","R","E","N","T","_","T","I","M","E","=","}","}">>
SHOW_MODEL_INFO_KEYWORD == <<"{","{","=","S","H","O","W","_","M","O","D","E","L","_","I","N","F","O","=","}","}">>
SHOW_PERFORMANCE_KEYWORD == <<"{","{","=","S","H","O","W","_","P","E","R","F","O","R","M","A","N","C","E","=","}","}">>
ALL_TAGS_KEYWORD == <<"{","{","=","A","L","L","_","T","A","G","S","=","}","}">>
CURRENT_TAGS_KEYWORD == <<"{","{","=","C","U","R","R","E","N","T","_","T","A","G","S","=","}","}">>

\* the alternatives of the control regex, KEYWORD + "=(true|false)"
EqTrue == <<"=","t","r","u","e">>
EqFalse == <<"=","f","a","l","s","e">>

\* "Context:\n", the label of the appended context block
ContextLabel == <<"C","o","n","t","e","x","t",":","\n">>

\* "\n\n", the separator of join("\n\n")
BlankLine == <<"\n","\n">>

----------------------------------------------------------------------------
(* JavaScript values and string primitives *)

\* the value undefined where a string is expected
UNDEF == <<"undefined">>

\* the characters String.prototype.trim removes (those the model's alphabet has)
WhiteSpace == {" ", "\n", "\t"}

Min(a, b) == IF a <= b THEN a ELSE b

Max(a, b) == IF a >= b THEN a ELSE b

\* k occurs in s at the 0-based offset i
StartsAt(s, k, i) ==
    /\ i >= 0
    /\ i + Len(k) <= Len(s)
    /\ (k # <<>> => s[i + 1] = k[1])
    /\ SubSeq(s, i + 1, i + Len(k)) = k

\* s.includes(k)
Includes(s, k) == \E i \in 0..(Len(s) - Len(k)) : StartsAt(s, k, i)

\* s.indexOf(k): the first offset, -1 when k does not occur
IndexOf(s, k) ==
    IF Includes(s, k)
    THEN CHOOSE i \in 0..(Len(s) - Len(k)) :
            StartsAt(s, k, i) /\ \A j \in 0..(i - 1) : ~StartsAt(s, k, j)
    ELSE -1

\* s.substring(a, b): arguments clamped to [0, length] and swapped when a > b
Substring(s, a, b) ==
    LET x == Max(0, Min(a, Len(s)))
        y == Max(0, Min(b, Len(s)))
    IN SubSeq(s, Min(x, y) + 1, Max(x, y))

\* s.substring(a)
SubstringFrom(s, a) == Substring(s, a, Len(s))

RECURSIVE TrimStart(_)
TrimStart(s) == IF s # <<>> /\ Head(s) \in WhiteSpace THEN TrimStart(Tail(s)) ELSE s

RECURSIVE TrimEnd(_)
TrimEnd(s) ==
    IF s # <<>> /\ s[Len(s)] \in WhiteSpace THEN TrimEnd(SubSeq(s, 1, Len(s) - 1)) ELSE s

\* s.trim()
Trim(s) == TrimEnd(TrimStart(s))

\* the backquote character (the lexer accepts no backquote in a string)
BackQuote == "bq"

\* The replacement text of String.prototype.replace for a string pattern:
\* dollar-dollar is a dollar, dollar-ampersand the match, dollar-backquote the
\* text before the match, dollar-quote the text after it.
RECURSIVE GetSubstitution(_, _, _, _)
GetSubstitution(r, matched, before, after) ==
    IF r = <<>> THEN <<>>
    ELSE IF Head(r) = "$" /\ Len(r) >= 2 /\ r[2] \in {"$", "&", BackQuote, "'"}
    THEN (CASE r[2] = "$" -> <<"$">>
            [] r[2] = "&" -> matched
            [] r[2] = BackQuote -> before
            [] OTHER -> after)
         \o GetSubstitution(SubSeq(r, 3, Len(r)), matched, before, after)
    ELSE <<Head(r)>> \o GetSubstitution(Tail(r), matched, before, after)

\* s.replace(k, r) with a string pattern k: the first occurrence only
ReplaceFirst(s, k, r) ==
    IF ~Includes(s, k) THEN s
    ELSE LET i == IndexOf(s, k)
             before == SubSeq(s, 1, i)
             after == SubSeq(s, i + Len(k) + 1, Len(s))
         IN before \o GetSubstitution(r, k, before, after) \o after

\* s.replace(new RegExp(k, "g"), r) for a literal k and an r without "$"
RECURSIVE ReplaceAll(_, _, _)
ReplaceAll(s, k, r) ==
    IF ~Includes(s, k) THEN s
    ELSE CHOOSE out \in
           {SubSeq(s, 1, i) \o r \o ReplaceAll(SubSeq(s, i + Len(k) + 1, Len(s)), k, r) :
               i \in {IndexOf(s, k)}} : TRUE

\* x || ""
OrEmpty(x) == IF x = UNDEF THEN <<>> ELSE x

\* Boolean(x) for a string or undefined
Truthy(x) == x # UNDEF /\ x # <<>>

\* [a, b].filter(Boolean).join("\n\n")
JoinTruthy(a, b) ==
    IF Truthy(a) /\ Truthy(b) THEN a \o BlankLine \o b
    ELSE IF Truthy(a) THEN a
    ELSE IF Truthy(b) THEN b
    ELSE <<>>

----------------------------------------------------------------------------
(* ControlParameterProcessor *)

\* canProcess
ControlCanProcess(p) ==
    Includes(p, SHOW_MODEL_INFO_KEYWORD) \/ Includes(p, SHOW_PERFORMANCE_KEYWORD)

\* the regex KEYWORD + "=(true|false)" matches s at offset i
ControlRegexAt(s, kw, i) == StartsAt(s, kw \o EqTrue, i) \/ StartsAt(s, kw \o EqFalse, i)

\* prompt.match(regex) is not null
ControlHasMatch(s, kw) == \E i \in 0..Len(s) : ControlRegexAt(s, kw, i)

\* the offset of prompt.match(regex)[0]
ControlFirstMatch(s, kw) ==
    CHOOSE i \in 0..Len(s) :
        ControlRegexAt(s, kw, i) /\ \A j \in 0..(i - 1) : ~ControlRegexAt(s, kw, j)

\* the flag read as: true when kw=true occurs anywhere, else false when kw=false occurs
ControlFlag_AnyTrue(s, kw) ==
    IF Includes(s, kw \o EqTrue) THEN "true"
    ELSE IF Includes(s, kw \o EqFalse) THEN "false"
    ELSE "undefined"

\* match ? match[0].endsWith("=true") : undefined, inside if (prompt.includes(kw))
ControlFlag(s, kw) ==
    IF ~Includes(s, kw) THEN "undefined"
    ELSE IF ~ControlHasMatch(s, kw) THEN "undefined"
    ELSE IF StartsAt(s, kw \o EqTrue, ControlFirstMatch(s, kw)) THEN "true"
    ELSE "false"

\* the text before the first match of the regex and the text after it
ControlCut(s, kw) ==
    LET i == ControlFirstMatch(s, kw)
        n == IF StartsAt(s, kw \o EqTrue, i) THEN Len(kw \o EqTrue) ELSE Len(kw \o EqFalse)
    IN <<SubSeq(s, 1, i), SubSeq(s, i + n + 1, Len(s))>>

\* prompt.replace(regex, "") with the g flag: every match, left to right, the
\* search going on after the match
RECURSIVE ControlRegexRemove(_, _)
ControlRegexRemove(s, kw) ==
    IF ~ControlHasMatch(s, kw) THEN s
    ELSE CHOOSE r \in {cut[1] \o ControlRegexRemove(cut[2], kw) :
                           cut \in {ControlCut(s, kw)}} : TRUE

\* the prompt after one of the two if-blocks of process
ControlStrip(s, kw) == IF Includes(s, kw) THEN ControlRegexRemove(s, kw) ELSE s

\* process: the model-info block, then the performance block on its output
\* (p1, the prompt between the two blocks, is computed once)
ControlProcess(p) ==
    CHOOSE r \in {[prompt |-> ControlStrip(p1, SHOW_PERFORMANCE_KEYWORD),
                   showModelInfo |-> ControlFlag(p, SHOW_MODEL_INFO_KEYWORD),
                   showPerformance |-> ControlFlag(p1, SHOW_PERFORMANCE_KEYWORD)] :
                      p1 \in {ControlStrip(p, SHOW_MODEL_INFO_KEYWORD)}} : TRUE

----------------------------------------------------------------------------
(* BasicVariableProcessor *)

\* the selection block of process
BasicSelection(p, sel) ==
    IF Includes(p, SELECTION_KEYWORD)
    THEN ReplaceFirst(p, SELECTION_KEYWORD, OrEmpty(sel))
    ELSE JoinTruthy(p, sel)

\* contextText.trim() is evaluated on undefined in the context block
BasicContextThrows(p, ctx) == ~Includes(p, CONTEXT_KEYWORD) /\ ctx = UNDEF

\* the context block without the trim in its guard
BasicContext_NoTrimGuard(p, ctx) ==
    IF Includes(p, CONTEXT_KEYWORD)
    THEN ReplaceFirst(p, CONTEXT_KEYWORD, OrEmpty(ctx))
    ELSE IF OrEmpty(ctx) # <<>> THEN JoinTruthy(p, ContextLabel \o ctx)
    ELSE p

\* the context block of process (when it does not throw)
BasicContext(p, ctx) ==
    IF Includes(p, CONTEXT_KEYWORD)
    THEN ReplaceFirst(p, CONTEXT_KEYWORD, OrEmpty(ctx))
    ELSE IF Trim(ctx) # <<>> THEN JoinTruthy(p, ContextLabel \o ctx)
    ELSE p

\* both guards of the conditional block hold
BasicConditionTaken(p) ==
    /\ Includes(p, CONTEXT_CONDITION_START)
    /\ Includes(p, CONTEXT_CONDITION_END)
    /\ LET start == IndexOf(p, CONTEXT_CONDITION_START) - 1
           end == IndexOf(p, CONTEXT_CONDITION_END)
       IN start # -1 /\ end # -1 /\ start < end

\* contextText.trim() is evaluated on undefined in the conditional block
BasicConditionThrows(p, ctx) == BasicConditionTaken(p) /\ ctx = UNDEF

\* the conditional block of process (when it does not throw)
BasicCondition(p, ctx) ==
    IF ~BasicConditionTaken(p) THEN p
    ELSE LET start == IndexOf(p, CONTEXT_CONDITION_START) - 1
             end == IndexOf(p, CONTEXT_CONDITION_END)
             inner == Substring(p, start + Len(CONTEXT_CONDITION_START) + 1, end)
             contextBlock == IF Trim(ctx) = <<>> THEN <<>> ELSE inner
         IN Substring(p, 0, start) \o contextBlock
              \o SubstringFrom(p, end + Len(CONTEXT_CONDITION_END) + 1)

\* process throws a TypeError
BasicThrows(p, sel, ctx) ==
    \E p1 \in {BasicSelection(p, sel)} :
        \/ BasicContextThrows(p1, ctx)
        \/ \E p2 \in {BasicContext(p1, ctx)} : BasicConditionThrows(p2, ctx)

\* process: selection, context, conditional block
BasicProcess(p, sel, ctx) ==
    CHOOSE r \in {BasicCondition(p2, ctx) :
                      p2 \in {BasicContext(p1, ctx) : p1 \in {BasicSelection(p, sel)}}} : TRUE

----------------------------------------------------------------------------
(* TimeVariableProcessor *)

\* now.toLocaleString("zh-CN", ...): a date, a weekday, a blank, a 24-hour time
FormattedTime == <<"2","0","2","6","/","1","1","/","0","4","W"," ","1","2",":","0","0">>

TimeCanProcess(p) == Includes(p, CURRENT_TIME_KEYWORD)

TimeProcess(p) == ReplaceFirst(p, CURRENT_TIME_KEYWORD, FormattedTime)

----------------------------------------------------------------------------
(* TagVariableProcessor *)

Digit(n) == <<"0","1","2","3","4","5","6","7","8","9">>[n + 1]

\* the lines "i. tag (count)\n" for the tags i..n
RECURSIVE TagLines(_, _)
TagLines(i, n) ==
    IF i > n THEN <<>>
    ELSE <<Digit(i), ".", " ", "#", "t", Digit(i), " ", "(", "1", ")", "\n">> \o TagLines(i + 1, n)

\* generateTagTemplateVariable: a total, a blank line, a heading, one line per tag
GenerateTagTemplateVariable(n) ==
    <<"T", ":", " ", Digit(n), "\n", "\n", "M", Digit(n), ":", "\n">> \o TagLines(1, n)

\* "i, j": currentTags.join(", ")
RECURSIVE TagList(_, _)
TagList(i, n) ==
    IF i > n THEN <<>>
    ELSE <<"#", "t", Digit(i)>> \o (IF i < n THEN <<",", " ">> ELSE <<>>) \o TagList(i + 1, n)

\* the text put in place of the current-tags marker
CurrentTagsVar(n) == IF n = 0 THEN <<"N", "o", "T", "a", "g", "s">> ELSE <<"C", ":", " ">> \o TagList(1, n)

TagCanProcess(p) == Includes(p, ALL_TAGS_KEYWORD) \/ Includes(p, CURRENT_TAGS_KEYWORD)

\* process
TagProcess(p, hasApp, nTags, nFileTags) ==
    IF ~hasApp THEN p
    ELSE CHOOSE r \in {IF Includes(p1, CURRENT_TAGS_KEYWORD)
                        THEN ReplaceAll(p1, CURRENT_TAGS_KEYWORD, CurrentTagsVar(nFileTags))
                        ELSE p1 :
                           p1 \in {IF Includes(p, ALL_TAGS_KEYWORD)
                                   THEN ReplaceAll(p, ALL_TAGS_KEYWORD,
                                                   GenerateTagTemplateVariable(nTags))
                                   ELSE p}} : TRUE

----------------------------------------------------------------------------
(* PromptProcessor and preparePrompt, as pure functions *)

\* the result of a call that threw
THREW == [prompt |-> <<"TypeError">>, showModelInfo |-> "threw", showPerformance |-> "threw"]

\* needsAsync: only the tag processor is asynchronous
NeedsAsync(p) == TagCanProcess(p)

\* the prompt after the control processor, when it can process
AfterControl(p) == IF ControlCanProcess(p) THEN ControlProcess(p).prompt ELSE p

\* processSync after the control processor: the basic and the time processor, the trim
SyncSteps(c, sel, ctx) ==
    IF BasicThrows(c.prompt, sel, ctx) THEN THREW
    ELSE CHOOSE r \in {[c EXCEPT !.prompt = Trim(t)] :
                           t \in {IF TimeCanProcess(b) THEN TimeProcess(b) ELSE b :
                                     b \in {BasicProcess(c.prompt, sel, ctx)}}} : TRUE

\* processSync
ProcessSync(p, sel, ctx) ==
    CHOOSE r \in {SyncSteps(c, sel, ctx) :
                      c \in {IF ControlCanProcess(p)
                             THEN ControlProcess(p)
                             ELSE [prompt |-> p, showModelInfo |-> "undefined",
                                   showPerformance |-> "undefined"]}} : TRUE

\* process
ProcessAsync(p, sel, ctx, hasApp, nTags, nFileTags) ==
    CHOOSE out \in
        {IF r = THREW THEN THREW
         ELSE IF TagCanProcess(r.prompt)
              THEN CHOOSE o \in {[r EXCEPT !.prompt = Trim(t)] :
                                    t \in {TagProcess(r.prompt, hasApp, nTags, nFileTags)}} : TRUE
              ELSE [r EXCEPT !.prompt = Trim(r.prompt)] :
            r \in {ProcessSync(p, sel, ctx)}} : TRUE

\* preparePrompt: prompt defaults to "", the path is chosen by app and needsAsync
PreparePromptFn(p, sel, ctx, hasApp, nTags, nFileTags) ==
    CHOOSE r \in {IF hasApp \/ NeedsAsync(q)
                  THEN ProcessAsync(q, sel, ctx, hasApp, nTags, nFileTags)
                  ELSE ProcessSync(q, sel, ctx) : q \in {OrEmpty(p)}} : TRUE

----------------------------------------------------------------------------
(* preparePrompt as a process: one step per processor of the pipeline *)

\* result = { prompt, showModelInfo: undefined, showPerformance: undefined }
InitialResult(p) == [prompt |-> p, showModelInfo |-> "undefined", showPerformance |-> "undefined"]

\* preparePrompt is entered: default parameter, choice of the path
PreparePromptCall ==
    /\ pc = "call"
    /\ result' = InitialResult(OrEmpty(template))
    /\ path' = IF app \/ NeedsAsync(OrEmpty(template)) THEN "async" ELSE "sync"
    /\ pc' = "control"
    /\ UNCHANGED <<template, selectedText, context, app, tagCount, fileTagCount>>
    /\ UNCHANGED avars

\* processSync, first processor: the result object is merged into result
RunControl ==
    /\ pc = "control"
    /\ result' = IF ControlCanProcess(result.prompt) THEN ControlProcess(result.prompt) ELSE result
    /\ pc' = "basic"
    /\ UNCHANGED <<template, selectedText, context, app, tagCount, fileTagCount, path>>
    /\ UNCHANGED avars

\* the second processor followed by a second run of the control processor,
\* on the prompt that holds the substituted texts
RunBasic_ControlAfter ==
    /\ pc = "basic"
    /\ IF BasicThrows(result.prompt, selectedText, context)
       THEN pc' = "threw" /\ result' = result
       ELSE /\ pc' = "time"
            /\ LET q == BasicProcess(result.prompt, selectedText, context)
                   c == ControlProcess(q)
               IN result' = [prompt |-> c.prompt,
                             showModelInfo |-> IF c.showModelInfo # "undefined"
                                               THEN c.showModelInfo
                                               ELSE result.showModelInfo,
                             showPerformance |-> IF c.showPerformance # "undefined"
                                                 THEN c.showPerformance
                                                 ELSE result.showPerformance]
    /\ UNCHANGED <<template, selectedText, context, app, tagCount, fileTagCount, path>>
    /\ UNCHANGED avars

\* processSync, second processor: canProcess is always true
RunBasic ==
    /\ pc = "basic"
    /\ IF BasicThrows(result.prompt, selectedText, context)
       THEN pc' = "threw" /\ result' = result
       ELSE /\ pc' = "time"
            /\ result' = [result EXCEPT !.prompt = BasicProcess(result.prompt, selectedText, context)]
    /\ UNCHANGED <<template, selectedText, context, app, tagCount, fileTagCount, path>>
    /\ UNCHANGED avars

\* processSync, third processor
RunTime ==
    /\ pc = "time"
    /\ result' = IF TimeCanProcess(result.prompt)
                 THEN [result EXCEPT !.prompt = TimeProcess(result.prompt)]
                 ELSE result
    /\ pc' = "trimSync"
    /\ UNCHANGED <<template, selectedText, context, app, tagCount, fileTagCount, path>>
    /\ UNCHANGED avars

\* processSync: result.prompt = result.prompt.trim(), and the return
TrimSync ==
    /\ pc = "trimSync"
    /\ result' = [result EXCEPT !.prompt = Trim(result.prompt)]
    /\ pc' = IF path = "sync" THEN "done" ELSE "tag"
    /\ UNCHANGED <<template, selectedText, context, app, tagCount, fileTagCount, path>>
    /\ UNCHANGED avars

\* process: the asynchronous processors after processSync
RunTag ==
    /\ pc = "tag"
    /\ result' = IF TagCanProcess(result.prompt)
                 THEN [result EXCEPT !.prompt = TagProcess(result.prompt, app, tagCount, fileTagCount)]
                 ELSE result
    /\ pc' = "trimAsync"
    /\ UNCHANGED <<template, selectedText, context, app, tagCount, fileTagCount, path>>
    /\ UNCHANGED avars

\* process returning the prompt as the tag processor left it
TrimAsync_NoTrim ==
    /\ pc = "trimAsync"
    /\ result' = result
    /\ pc' = "done"
    /\ UNCHANGED <<template, selectedText, context, app, tagCount, fileTagCount, path>>
    /\ UNCHANGED avars

\* process: result.prompt = result.prompt.trim(), and the return
TrimAsync ==
    /\ pc = "trimAsync"
    /\ result' = [result EXCEPT !.prompt = Trim(result.prompt)]
    /\ pc' = "done"
    /\ UNCHANGED <<template, selectedText, context, app, tagCount, fileTagCount, path>>
    /\ UNCHANGED avars

PNext ==
    \/ PreparePromptCall
    \/ RunControl
    \/ RunBasic
    \/ RunTime
    \/ TrimSync
    \/ RunTag
    \/ TrimAsync

----------------------------------------------------------------------------
(* textUtils and the output of a completed action *)

\* the two literals of the regex /^<think>[\s\S]*?<\/think>\s*/
ThinkOpen == <<"<","t","h","i","n","k",">">>

ThinkClose == <<"<","/","t","h","i","n","k",">">>

\* s.indexOf(k, from)
IndexOfFrom(s, k, from) ==
    IF \E i \in from..(Len(s) - Len(k)) : StartsAt(s, k, i)
    THEN CHOOSE i \in from..(Len(s) - Len(k)) :
            StartsAt(s, k, i) /\ \A j \in from..(i - 1) : ~StartsAt(s, k, j)
    ELSE -1

\* removeThinkingTags: a block at offset 0 is removed up to the first closing
\* tag, with the white space after it; any other text is returned as it is
RemoveThinkingTags(text) ==
    IF ~StartsAt(text, ThinkOpen, 0) THEN text
    ELSE LET close == IndexOfFrom(text, ThinkClose, Len(ThinkOpen))
         IN IF close = -1 THEN text
            ELSE TrimStart(SubstringFrom(text, close + Len(ThinkClose)))

\* processGeneratedText: "" for a blank text, else the cleaned text between
\* two line feeds
ProcessGeneratedText(text) ==
    IF Trim(text) = <<>> THEN <<>>
    ELSE <<"\n">> \o Trim(RemoveThinkingTags(text)) \o <<"\n">>

\* the three extensions of /\.(?:png|jpe?g)/ (in lower case)
ImageExtensions ==
    {<<".","p","n","g">>, <<".","j","p","g">>, <<".","j","p","e","g">>}

\* an extension followed by "]]" occurs in s at offset e: its length, else 0
ExtensionAt(s, e) ==
    IF \E x \in ImageExtensions : StartsAt(s, x \o <<"]", "]">>, e)
    THEN Len(CHOOSE x \in ImageExtensions : StartsAt(s, x \o <<"]", "]">>, e))
    ELSE 0

\* the offsets at which the lazy (.+?) of a link opened at offset j may stop:
\* at least one character, no line feed, an extension and "]]" next
NameEnds(s, j) ==
    {e \in (j + 3)..Len(s) :
        /\ ExtensionAt(s, e) > 0
        /\ \A k \in (j + 3)..e : s[k] # "\n"}

\* the regex matches at offset i: an optional "!", "[[", the shortest name
MatchesAt(s, i) ==
    LET j == IF i < Len(s) /\ s[i + 1] = "!" THEN i + 1 ELSE i
    IN StartsAt(s, <<"[", "[">>, j) /\ NameEnds(s, j) # {}

\* the match at offset i: where it ends, and its second group
MatchAt(s, i) ==
    LET j == IF s[i + 1] = "!" THEN i + 1 ELSE i
        ends == NameEnds(s, j)
        e == CHOOSE x \in ends : \A y \in ends : x <= y
        stop == e + ExtensionAt(s, e)
    IN [end |-> stop + 2, name |-> SubSeq(s, j + 3, stop)]

\* the offset of the leftmost match at or after pos, -1 when there is none
FirstMatchFrom(s, pos) ==
    IF \E i \in pos..(Len(s) - 1) : MatchesAt(s, i)
    THEN CHOOSE i \in pos..(Len(s) - 1) :
            MatchesAt(s, i) /\ \A y \in pos..(i - 1) : ~MatchesAt(s, y)
    ELSE -1

\* matchAll and replace with the global regex, from offset pos on: the
\* leftmost match, then the search goes on after it
RECURSIVE ExtractFrom(_, _)
ExtractFrom(s, pos) ==
    LET i == FirstMatchFrom(s, pos)
    IN IF i = -1
       THEN [fileNames |-> <<>>, cleanedText |-> SubSeq(s, pos + 1, Len(s))]
       ELSE LET m == MatchAt(s, i)
            IN CHOOSE r \in
                 {[fileNames |-> <<m.name>> \o rest.fileNames,
                   cleanedText |-> SubSeq(s, pos + 1, i) \o rest.cleanedText] :
                     rest \in {ExtractFrom(s, m.end)}} : TRUE

\* extractImageLinks
ExtractImageLinks(text) ==
    CHOOSE r \in {[fileNames |-> x.fileNames, cleanedText |-> x.cleanedText, done |-> TRUE] :
                     x \in {ExtractFrom(text, 0)}} : TRUE

\* a character of the range \u4e00-\u9fff
ChineseChar == "zh"

\* the characters of /[*_~\x60#\[\]()]/
MarkdownChars == {"*", "_", "~", BackQuote, "#", "[", "]", "(", ")"}

\* (s.match(/[...]/g) || []).length for a character class
CountIn(s, class) == Cardinality({i \in 1..Len(s) : s[i] \in class})

\* the three backquotes that open and close a code block
Fence == <<BackQuote, BackQuote, BackQuote>>

\* the global matches of the code block regex from offset pos on: a fence,
\* the shortest text, a fence; their total length, and the text without them
RECURSIVE CodeBlocksFrom(_, _)
CodeBlocksFrom(s, pos) ==
    LET i == IndexOfFrom(s, Fence, pos)
        j == IF i = -1 THEN -1 ELSE IndexOfFrom(s, Fence, i + 3)
    IN IF j = -1
       THEN [length |-> 0, rest |-> SubSeq(s, pos + 1, Len(s))]
       ELSE CHOOSE r \in
              {[length |-> (j + 3 - i) + more.length,
                rest |-> SubSeq(s, pos + 1, i) \o more.rest] :
                  more \in {CodeBlocksFrom(s, j + 3)}} : TRUE

\* the inline code regex matches at offset i: a backquote, at least one
\* character that is none, a backquote
InlineCodeAt(s, i) ==
    /\ i + 2 < Len(s)
    /\ s[i + 1] = BackQuote
    /\ s[i + 2] # BackQuote
    /\ IndexOfFrom(s, <<BackQuote>>, i + 2) # -1

\* the global matches of the inline code regex from offset pos on
RECURSIVE InlineCodeFrom(_, _)
InlineCodeFrom(s, pos) ==
    IF \A i \in pos..(Len(s) - 1) : ~InlineCodeAt(s, i)
    THEN [length |-> 0, rest |-> SubSeq(s, pos + 1, Len(s))]
    ELSE LET i == CHOOSE x \in pos..(Len(s) - 1) :
                     InlineCodeAt(s, x) /\ \A y \in pos..(x - 1) : ~InlineCodeAt(s, y)
             j == IndexOfFrom(s, <<BackQuote>>, i + 2)
         IN CHOOSE r \in
              {[length |-> (j + 1 - i) + more.length,
                rest |-> SubSeq(s, pos + 1, i) \o more.rest] :
                  more \in {InlineCodeFrom(s, j + 1)}} : TRUE

\* Math.ceil(a / b) for an integer a and a positive integer b
CeilDiv(a, b) == -((-a) \div b)

\* estimateTokens, the factors 0.7, 0.25, 0.285, 0.1 and 1.2 as fractions
EstimateTokens(text, isInput) ==
    IF text = <<>> \/ text = UNDEF THEN 0
    ELSE LET chineseChars == CountIn(text, {ChineseChar})
             codeBlocks == CodeBlocksFrom(text, 0)
             inlineCode == InlineCodeFrom(text, 0)
             markdownChars == CountIn(text, MarkdownChars)
             textWithoutCode == InlineCodeFrom(codeBlocks.rest, 0).rest
             englishChars == Len(textWithoutCode) - chineseChars
             chineseTokens == CeilDiv(7 * chineseChars, 10)
             englishTokens == CeilDiv(englishChars, 4)
             codeTokens == CeilDiv(285 * (codeBlocks.length + inlineCode.length), 1000)
             markdownTokens == CeilDiv(markdownChars, 10)
             totalTokens == CeilDiv(6 * (chineseTokens + englishTokens + codeTokens
                                           + markdownTokens), 5)
         IN IF isInput THEN Max(totalTokens + 60, 15) ELSE Max(totalTokens, 1)

\* "[name icons time]:" of formatOutput, M standing for what is between the brackets
ModelInfoLine == <<"[","M","]",":">>

\* "[Toks: ... ]:" of formatOutput, T standing for the metrics
PerformanceLine == <<"[","T","]",":">>

\* "\n---\n"
Rule == <<"\n","-","-","-","\n">>

\* formatOutput: the cleaned text, under the header when showModelInfo is
\* set, followed by the metrics when showPerformance is set
FormatOutput(fullText, showModelInfo, showPerformance) ==
    LET cleanedFullText == Trim(RemoveThinkingTags(fullText))
        finalText == IF showModelInfo = "true"
                     THEN ModelInfoLine \o Rule \o cleanedFullText
                     ELSE cleanedFullText
    IN IF showPerformance = "true"
       THEN finalText \o <<"\n">> \o Rule \o PerformanceLine
       ELSE finalText

\* insertText: the text handed to editor.replaceRange
InsertText(finalText, replace, isLastLine) ==
    IF replace THEN finalText
    ELSE LET formattedText == ProcessGeneratedText(finalText)
         IN IF isLastLine THEN <<"\n">> \o formattedText ELSE formattedText

----------------------------------------------------------------------------
(* executeAction and the context enhancer: one step between two awaits *)

\* the flags of an absent system prompt:
\* { showModelInfo: undefined, showPerformance: undefined }
NoOptions == [showModelInfo |-> "undefined", showPerformance |-> "undefined"]

\* getDisplayOptions with the user prompt ahead of the system prompt
GetDisplayOptions_PromptFirst(act, dflt) ==
    CHOOSE options \in
        {[showModelInfo |->
             IF promptOptions.showModelInfo # "undefined" THEN promptOptions.showModelInfo
             ELSE IF systemOptions.showModelInfo # "undefined" THEN systemOptions.showModelInfo
             ELSE dflt.showModelInfo,
          showPerformance |->
             IF promptOptions.showPerformance # "undefined" THEN promptOptions.showPerformance
             ELSE IF systemOptions.showPerformance # "undefined" THEN systemOptions.showPerformance
             ELSE dflt.showPerformance] :
            promptOptions \in {PreparePromptFn(act.prompt, <<>>, <<>>, TRUE, 0, 0)},
            systemOptions \in {IF Truthy(act.system)
                                THEN PreparePromptFn(act.system, <<>>, <<>>, TRUE, 0, 0)
                                ELSE NoOptions}} : TRUE

\* getDisplayOptions: both templates are resolved with empty selection and
\* context; the first defined of system, prompt and default is the flag
GetDisplayOptions(act, dflt) ==
    CHOOSE options \in
        {[showModelInfo |->
             IF systemOptions.showModelInfo # "undefined" THEN systemOptions.showModelInfo
             ELSE IF promptOptions.showModelInfo # "undefined" THEN promptOptions.showModelInfo
             ELSE dflt.showModelInfo,
          showPerformance |->
             IF systemOptions.showPerformance # "undefined" THEN systemOptions.showPerformance
             ELSE IF promptOptions.showPerformance # "undefined" THEN promptOptions.showPerformance
             ELSE dflt.showPerformance] :
            promptOptions \in {PreparePromptFn(act.prompt, <<>>, <<>>, TRUE, 0, 0)},
            systemOptions \in {IF Truthy(act.system)
                                THEN PreparePromptFn(act.system, <<>>, <<>>, TRUE, 0, 0)
                                ELSE NoOptions}} : TRUE

\* updateProgressBar: the target percentage, Math.round(completed / total * 100)
\* when there are steps, else 0
TargetPercentage(b) ==
    IF b.total > 0 THEN (200 * b.completed + b.total) \div (2 * b.total) ELSE 0

\* StatusBarManager.hide through host.hideStatusBar: the item is hidden when
\* there is one, the counters are reset
HideStatusBar(b) == [shown |-> FALSE, total |-> 0, completed |-> 0]

\* a catch block that reports the error whatever the signal says
RagCatch_AlwaysNotice(isAborted) == [notice |-> TRUE, propagate |-> FALSE]

\* a catch block that reports the error and lets it reach the caller too
RagCatch_Rethrow(isAborted) == [notice |-> ~isAborted, propagate |-> TRUE]

\* the catch of enhanceWithContext with ContextEnhancer.handleError: the
\* error is reported unless the signal is aborted, and it is not thrown again
RagCatch(isAborted) == [notice |-> ~isAborted, propagate |-> FALSE]

\* an error thrown at a step inside the try block of enhanceWithContext
EnhanceThrows(step) ==
    LET c == RagCatch(aborted)
    IN /\ thrown' = [step |-> step, aborted |-> aborted]
       /\ bar' = HideStatusBar(bar)
       /\ calls' = [calls EXCEPT !.hide = @ + 1,
                                 !.init = IF step = "progress" THEN @ + 1 ELSE @]
       /\ IF c.propagate
          THEN \* the host wrapper throws it again, executeAction catches it
               /\ notices' = notices \cup (IF c.notice THEN {"rag"} ELSE {})
                                     \cup (IF aborted THEN {} ELSE {"generate"})
               /\ failedAt' = "enhance"
               /\ apc' = "failed"
               /\ UNCHANGED enhanced
          ELSE /\ notices' = notices \cup (IF c.notice THEN {"rag"} ELSE {})
               /\ enhanced' = <<>>
               /\ apc' = "provider"
               /\ UNCHANGED failedAt

\* enhanceWithContext returns value without a call of hideStatusBar
EnhanceReturns_NoHide(value, n) ==
    /\ enhanced' = value
    /\ apc' = "provider"
    /\ UNCHANGED <<bar, calls, thrown, notices, failedAt>>

\* enhanceWithContext returns value after n calls of hideStatusBar
EnhanceReturns(value, n) ==
    /\ enhanced' = value
    /\ apc' = "provider"
    /\ bar' = IF n > 0 THEN HideStatusBar(bar) ELSE bar
    /\ calls' = [calls EXCEPT !.hide = @ + n]
    /\ UNCHANGED <<thrown, notices, failedAt>>

\* a controller is in the list
InList(list, controller) == \E i \in 1..Len(list) : list[i] = controller

\* executeAction up to its first await: a new abort controller, and the
\* image links are taken out of the selected text
ExecStart ==
    /\ apc = "idle"
    /\ aborted' = FALSE
    /\ abortControllers' = Append(abortControllers, "own")
    /\ links' = ExtractImageLinks(action.text)
    /\ apc' = "enhance"
    /\ UNCHANGED <<env, action, defaults, bar, calls, enhanced, thrown, notices,
                   display, request, failedAt>>
    /\ UNCHANGED xvars
    /\ UNCHANGED <<estimate, kvars>>
    /\ UNCHANGED pvars

\* the escape handler aborts the controller of the running action
Escape ==
    /\ apc \in {"enhance", "awaitDocs", "awaitStore", "awaitQuery",
                "provider", "prepare", "display", "execute", "streaming"}
    /\ ~aborted
    /\ aborted' = InList(abortControllers, "own")
    /\ abortControllers' = <<>>
    /\ stream' = IF listener /\ stream.state = "open" /\ InList(abortControllers, "own")
                 THEN [stream EXCEPT !.state = "aborted"]
                 ELSE stream
    /\ peer' = IF peer.pc = "awaitStore" /\ InList(abortControllers, "peer")
               THEN [peer EXCEPT !.aborted = TRUE]
               ELSE peer
    /\ UNCHANGED <<env, action, defaults, apc, bar, calls, enhanced, thrown, notices,
                   display, request, failedAt>>
    /\ UNCHANGED <<listener, preview, inserted>>
    /\ UNCHANGED <<links, estimate, kvars>>
    /\ UNCHANGED pvars

\* enhanceWithContext with the progress bar started before the preconditions
EnhanceEnter_ProgressFirst ==
    /\ apc = "enhance"
    /\ IF env.statusBar = "destroyed"
       THEN EnhanceThrows("progress")
       ELSE IF ~env.activeFile \/ ~env.embedding \/ env.linked = 0 \/ aborted
       THEN /\ enhanced' = <<>>
            /\ apc' = "provider"
            /\ bar' = [shown |-> TRUE, total |-> 0, completed |-> 0]
            /\ calls' = [calls EXCEPT !.init = @ + 1]
            /\ UNCHANGED <<thrown, notices, failedAt>>
       ELSE /\ bar' = [shown |-> TRUE, total |-> 0, completed |-> 0]
            /\ calls' = [calls EXCEPT !.init = @ + 1, !.docs = @ + 1]
            /\ apc' = "awaitDocs"
            /\ UNCHANGED <<enhanced, thrown, notices, failedAt>>
    /\ UNCHANGED <<env, action, defaults, aborted, display, request>>
    /\ UNCHANGED xvars
    /\ UNCHANGED uvars
    /\ UNCHANGED pvars

\* enhanceWithContext up to the await of startProcessing: the preconditions,
\* the linked files, the signal, initializeProgress, processLinkedDocuments
EnhanceEnter ==
    /\ apc = "enhance"
    /\ IF ~env.activeFile \/ ~env.embedding \/ env.linked = 0 \/ aborted
       THEN EnhanceReturns(<<>>, 0)
       ELSE IF env.statusBar = "destroyed"
       THEN EnhanceThrows("progress")
       ELSE /\ bar' = [shown |-> TRUE, total |-> 0, completed |-> 0]
            /\ calls' = [calls EXCEPT !.init = @ + 1, !.docs = @ + 1]
            /\ apc' = "awaitDocs"
            /\ UNCHANGED <<enhanced, thrown, notices, failedAt>>
    /\ UNCHANGED <<env, action, defaults, aborted, display, request>>
    /\ UNCHANGED xvars
    /\ UNCHANGED uvars
    /\ UNCHANGED pvars

\* startProcessing settles: it throws, or yields n processed documents; then
\* createAndQueryVectorStore up to the await of createVectorStore
DocsResolve ==
    /\ apc = "awaitDocs"
    /\ \/ EnhanceThrows("docs")
       \/ \E n \in 0..env.linked :
            IF n = 0 THEN EnhanceReturns(<<>>, 1)
            ELSE IF aborted THEN EnhanceReturns(<<>>, 2)
            ELSE /\ calls' = [calls EXCEPT !.store = @ + 1]
                 /\ apc' = "awaitStore"
                 /\ UNCHANGED <<bar, enhanced, thrown, notices, failedAt>>
    /\ UNCHANGED <<env, action, defaults, aborted, display, request>>
    /\ UNCHANGED xvars
    /\ UNCHANGED uvars
    /\ UNCHANGED pvars

\* createVectorStore reports progress through the two callbacks it was given
StoreProgress ==
    /\ apc = "awaitStore"
    /\ \/ /\ bar.total < MaxSteps
          /\ bar' = [bar EXCEPT !.total = @ + 1]
       \/ /\ bar.completed < bar.total
          /\ bar' = [bar EXCEPT !.completed = @ + 1]
    /\ UNCHANGED <<env, action, defaults, apc, aborted, calls, enhanced, thrown,
                   notices, display, request, failedAt>>
    /\ UNCHANGED xvars
    /\ UNCHANGED uvars
    /\ UNCHANGED pvars

\* createVectorStore settles: it throws, or the store is there; then up to
\* the await of queryVectorStore
StoreResolve ==
    /\ apc = "awaitStore"
    /\ \/ EnhanceThrows("store")
       \/ IF aborted THEN EnhanceReturns(<<>>, 2)
          ELSE /\ calls' = [calls EXCEPT !.query = @ + 1]
               /\ apc' = "awaitQuery"
               /\ UNCHANGED <<bar, enhanced, thrown, notices, failedAt>>
    /\ UNCHANGED <<env, action, defaults, aborted, display, request>>
    /\ UNCHANGED xvars
    /\ UNCHANGED uvars
    /\ UNCHANGED pvars

\* the texts queryVectorStore may yield
QueryResults == {<<>>, <<" ">>, <<"r">>}

\* queryVectorStore settles: it throws, or yields the relevant context, which
\* is returned when it is not blank
QueryResolve ==
    /\ apc = "awaitQuery"
    /\ \/ EnhanceThrows("query")
       \/ \E relevantContext \in QueryResults :
            EnhanceReturns(IF Truthy(Trim(relevantContext)) THEN relevantContext ELSE <<>>, 1)
    /\ UNCHANGED <<env, action, defaults, aborted, display, request>>
    /\ UNCHANGED xvars
    /\ UNCHANGED uvars
    /\ UNCHANGED pvars

\* handleVisionProvider: getProvider throws when no main provider is set, and
\* the catch of executeAction reports it unless the signal is aborted
ProviderStep ==
    /\ apc = "provider"
    /\ IF env.mainProvider
       THEN /\ apc' = "prepare"
            /\ UNCHANGED <<notices, failedAt>>
       ELSE /\ apc' = "failed"
            /\ failedAt' = "provider"
            /\ notices' = notices \cup (IF aborted THEN {} ELSE {"generate"})
    /\ UNCHANGED <<env, action, defaults, aborted, bar, calls, enhanced, thrown,
                   display, request>>
    /\ UNCHANGED xvars
    /\ UNCHANGED uvars
    /\ UNCHANGED pvars

\* prepareExecuteParams: the prompt is resolved with the selected text and the
\* returned context, the system prompt with empty ones
PrepareExecuteParams ==
    /\ apc = "prepare"
    /\ request' = [issued |-> FALSE,
                   prompt |-> PreparePromptFn(action.prompt, links.cleanedText,
                                              enhanced, TRUE, 0, 0).prompt,
                   systemPrompt |-> IF Truthy(action.system)
                                    THEN PreparePromptFn(action.system, <<>>, <<>>,
                                                         TRUE, 0, 0).prompt
                                    ELSE UNDEF]
    /\ apc' = "display"
    /\ UNCHANGED <<env, action, defaults, aborted, bar, calls, enhanced, thrown,
                   notices, display, failedAt>>
    /\ UNCHANGED xvars
    /\ UNCHANGED uvars
    /\ UNCHANGED pvars

\* the call of getDisplayOptions in executeAction
GetDisplayOptionsStep ==
    /\ apc = "display"
    /\ display' = GetDisplayOptions(action, defaults)
    /\ apc' = "execute"
    /\ UNCHANGED <<env, action, defaults, aborted, bar, calls, enhanced, thrown,
                   notices, request, failedAt>>
    /\ UNCHANGED xvars
    /\ UNCHANGED uvars
    /\ UNCHANGED pvars

\* aiServiceManager.execute: the inference request is issued with
\* parameters that hold no signal; then the handlers of the chunk handler
\* and the "abort" listener of the signal are registered
Execute ==
    /\ apc = "execute"
    /\ request' = [request EXCEPT !.issued = TRUE]
    /\ stream' = [state |-> "open", chunks |-> 0, text |-> <<>>]
    /\ listener' = TRUE
    /\ apc' = "streaming"
    /\ UNCHANGED <<env, action, defaults, aborted, bar, calls, enhanced, thrown,
                   notices, display, failedAt>>
    /\ UNCHANGED <<preview, inserted, peer>>
    /\ UNCHANGED uvars
    /\ UNCHANGED pvars

\* the pieces of text the model may send
Chunks == {<<"a">>, <<"\n">>, ThinkOpen, ThinkOpen \o <<"x">> \o ThinkClose}

\* onData: the spinner shows the accumulated text through processText
StreamData ==
    /\ apc = "streaming"
    /\ stream.state = "open"
    /\ stream.chunks < MaxChunks
    /\ \E chunk \in Chunks :
          /\ stream' = [stream EXCEPT !.chunks = @ + 1, !.text = @ \o chunk]
          /\ preview' = ProcessGeneratedText(stream.text \o chunk)
    /\ UNCHANGED <<env, action, defaults, apc, aborted, bar, calls, enhanced, thrown,
                   notices, display, request, failedAt>>
    /\ UNCHANGED <<listener, inserted, peer>>
    /\ UNCHANGED uvars
    /\ UNCHANGED pvars

\* onEnd: handleCompletion formats the full text with the display options
\* and inserts it; the signal is not looked at
StreamEnd ==
    /\ apc = "streaming"
    /\ stream.state = "open"
    /\ stream' = [stream EXCEPT !.state = "ended"]
    /\ \E isLastLine \in BOOLEAN :
          inserted' = [done |-> TRUE, lastLine |-> isLastLine,
                       text |-> InsertText(FormatOutput(stream.text, display.showModelInfo,
                                                        display.showPerformance),
                                           action.replace, isLastLine)]
    /\ apc' = "done"
    /\ UNCHANGED <<env, action, defaults, aborted, bar, calls, enhanced, thrown,
                   notices, display, request, failedAt>>
    /\ UNCHANGED <<listener, preview, peer>>
    /\ UNCHANGED uvars
    /\ UNCHANGED pvars

\* onError, also after abort(): ActionExecutor.handleError reports the error
\* unless the signal is aborted
StreamError ==
    /\ apc = "streaming"
    /\ stream.state \in {"open", "aborted"}
    /\ stream' = [stream EXCEPT !.state = "failed"]
    /\ notices' = notices \cup (IF aborted THEN {} ELSE {"generate"})
    /\ failedAt' = "stream"
    /\ apc' = "done"
    /\ UNCHANGED <<env, action, defaults, aborted, bar, calls, enhanced, thrown,
                   display, request>>
    /\ UNCHANGED <<listener, preview, inserted, peer>>
    /\ UNCHANGED uvars
    /\ UNCHANGED pvars

\* a second executeAction reaches initializeProgress on the status bar
\* manager of the plugin, the only one there is
PeerEnter ==
    /\ peer.pc = "idle"
    /\ IF env.statusBar = "destroyed"
       THEN /\ bar' = HideStatusBar(bar)
            /\ peer' = [peer EXCEPT !.pc = "done"]
       ELSE /\ bar' = [shown |-> TRUE, total |-> 0, completed |-> 0]
            /\ peer' = [peer EXCEPT !.pc = "awaitStore"]
    /\ UNCHANGED <<env, action, defaults, apc, aborted, calls, enhanced, thrown,
                   notices, display, request, failedAt>>
    /\ UNCHANGED <<stream, listener, preview, inserted>>
    /\ UNCHANGED uvars
    /\ UNCHANGED pvars

\* the vector store of the second action reports progress
PeerProgress ==
    /\ peer.pc = "awaitStore"
    /\ \/ /\ bar.total < MaxSteps
          /\ bar' = [bar EXCEPT !.total = @ + 1]
       \/ /\ bar.completed < bar.total
          /\ bar' = [bar EXCEPT !.completed = @ + 1]
    /\ UNCHANGED <<env, action, defaults, apc, aborted, calls, enhanced, thrown,
                   notices, display, request, failedAt>>
    /\ UNCHANGED xvars
    /\ UNCHANGED uvars
    /\ UNCHANGED pvars

\* the enhancement of the second action ends with hideStatusBar
PeerLeave ==
    /\ peer.pc = "awaitStore"
    /\ bar' = HideStatusBar(bar)
    /\ peer' = [peer EXCEPT !.pc = "done"]
    /\ UNCHANGED <<env, action, defaults, apc, aborted, calls, enhanced, thrown,
                   notices, display, request, failedAt>>
    /\ UNCHANGED <<stream, listener, preview, inserted>>
    /\ UNCHANGED uvars
    /\ UNCHANGED pvars

ANext ==
    \/ ExecStart
    \/ Escape
    \/ EnhanceEnter
    \/ DocsResolve
    \/ StoreProgress
    \/ StoreResolve
    \/ QueryResolve
    \/ ProviderStep
    \/ PrepareExecuteParams
    \/ GetDisplayOptionsStep
    \/ Execute
    \/ StreamData
    \/ StreamEnd
    \/ StreamError

DNext ==
    \/ GetDisplayOptionsStep
    \/ Execute

\* the characters a text is made of, and the empty text
EstimatePieces == {<<>>, <<"a">>, <<BackQuote>>, <<ChineseChar>>}

\* estimateTokens is called on the text grown by a piece
EstimateTokensCall ==
    /\ \E piece \in EstimatePieces :
          /\ Len(estimate.text) + Len(piece) <= MaxEstimateLen
          /\ estimate' = [text |-> estimate.text \o piece,
                          tokens |-> EstimateTokens(estimate.text \o piece, FALSE),
                          called |-> TRUE]
    /\ UNCHANGED <<env, action, defaults, apc, aborted, bar, calls, enhanced, thrown,
                   notices, display, request, failedAt>>
    /\ UNCHANGED xvars
    /\ UNCHANGED <<links, svars>>
    /\ UNCHANGED pvars

\* estimateTokens on longer and longer texts
TokensNext ==
    \/ EstimateTokensCall

\* executeAction up to its first await
LinksNext ==
    \/ ExecStart

\* executeAction from the call of execute on
OutNext ==
    \/ Escape
    \/ Execute
    \/ StreamData
    \/ StreamEnd
    \/ StreamError

\* the context enhancement of two actions on one plugin
TwoNext ==
    \/ ExecStart
    \/ Escape
    \/ EnhanceEnter
    \/ DocsResolve
    \/ StoreProgress
    \/ StoreResolve
    \/ QueryResolve
    \/ PeerEnter
    \/ PeerProgress
    \/ PeerLeave

----------------------------------------------------------------------------
(* Inputs *)

\* every concatenation of at most n of the tokens
RECURSIVE Concats(_, _)
Concats(Toks, n) ==
    IF n = 0 THEN {<<>>}
    ELSE LET shorter == Concats(Toks, n - 1)
         IN shorter \cup {t \o u : t \in Toks, u \in shorter}

\* extractImageLinks has not been called
NoLinks == [fileNames |-> <<>>, cleanedText |-> <<>>, done |-> FALSE]

\* estimateTokens has not been called
NoEstimate == [text |-> <<>>, tokens |-> 0, called |-> FALSE]

\* the names of the events and of the handler functions of the clients
EventNames == {"e1", "e2"}

HandlerNames == {"h", "r"}

\* a handler: a client function (once = 0), or the k-th wrapper that once made of it
Handlers == [fn : HandlerNames, once : 0..MaxOnce]

\* new EventBus(): no event, no wrapper, no emit in progress
NoBus ==
    [events |-> [e \in EventNames |-> <<>>],
     onceHandlers |-> {},
     frames |-> <<>>,
     invoked |-> [h \in Handlers |-> 0],
     made |-> 0,
     emits |-> 0,
     last |-> [op |-> "none", event |-> "e1", handler |-> [fn |-> "h", once |-> 0]]]

\* the tokens under which services are registered
Tokens == {"A", "B", "C"}

\* no descriptor under a token, and no instance under a token
NoService == [id |-> 0, dep |-> "none", singleton |-> TRUE, returns |-> [by |-> 0, n |-> 0]]

NoInstance == [by |-> 0, n |-> 0]

\* new ServiceContainer(): the three maps are empty
NoContainer ==
    [services |-> [t \in Tokens |-> NoService],
     instances |-> [t \in Tokens |-> NoInstance],
     resolving |-> {},
     invoked |-> [t \in Tokens |-> 0],
     regs |-> 0,
     made |-> 0,
     last |-> [op |-> "none", token |-> "A", outcome |-> "ok", value |-> NoInstance]]

\* the tags that occur in the vault, and a TagStats without any tag (a tag
\* counted 0 times is not a key of the object)
TagNames == {"x", "y"}

EmptyStats == [t \in TagNames |-> 0]

\* no call of getAllTagStats
NoTagCall == [op |-> "none", exclude |-> {}, force |-> FALSE, result |-> EmptyStats]

\* the module tagManager has just been loaded: tagStatsCache = null
NoTagCache ==
    [vault |-> {},
     cache |-> [set |-> FALSE, stats |-> EmptyStats],
     last |-> NoTagCall,
     prev |-> NoTagCall]

\* the controllers of the actions that have passed the start of executeAction
StartedControllers ==
    (IF peer.pc = "idle" THEN <<"peer">> ELSE <<>>)
        \o (IF apc \in {"constructed", "off", "idle"} THEN <<>> ELSE <<"own">>)

\* the services have just been constructed
SQuiet ==
    /\ bus = NoBus
    /\ container = NoContainer
    /\ tagCache = NoTagCache
    /\ abortControllers = StartedControllers

\* no stream is open, nothing is inserted, no second action is running
XQuiet ==
    /\ stream = [state |-> "none", chunks |-> 0, text |-> <<>>]
    /\ listener = FALSE
    /\ preview = <<>>
    /\ inserted = [done |-> FALSE, lastLine |-> FALSE, text |-> <<>>]
    /\ peer = [pc |-> "off", aborted |-> FALSE]
    /\ estimate = NoEstimate
    /\ SQuiet

\* no action has run yet: nothing shown, called, returned, reported or issued
AQuiet(at) ==
    /\ apc = at
    /\ aborted = FALSE
    /\ bar = [shown |-> FALSE, total |-> 0, completed |-> 0]
    /\ calls = [init |-> 0, hide |-> 0, docs |-> 0, store |-> 0, query |-> 0]
    /\ enhanced = UNDEF
    /\ thrown = [step |-> "none", aborted |-> FALSE]
    /\ notices = {}
    /\ display = [showModelInfo |-> "unset", showPerformance |-> "unset"]
    /\ request = [issued |-> FALSE, prompt |-> UNDEF, systemPrompt |-> UNDEF]
    /\ failedAt = "none"
    /\ links = NoLinks
    /\ XQuiet

\* no call of preparePrompt is being followed step by step
PQuiet ==
    /\ template = <<>>
    /\ selectedText = <<>>
    /\ context = <<>>
    /\ app = TRUE
    /\ tagCount = 0
    /\ fileTagCount = 0
    /\ pc = "off"
    /\ path = "sync"
    /\ result = InitialResult(<<>>)

\* the state before a call of preparePrompt(tpl, sel, ctx[, app])
PInit(Templates, Selections, Contexts) ==
    /\ template \in Templates
    /\ selectedText \in Selections
    /\ context \in Contexts
    /\ app \in BOOLEAN
    /\ tagCount = 0
    /\ fileTagCount = 0
    /\ pc = "call"
    /\ path = "sync"
    /\ result = InitialResult(<<>>)
    /\ env = [activeFile |-> FALSE, embedding |-> FALSE, mainProvider |-> FALSE,
              linked |-> 0, statusBar |-> "destroyed"]
    /\ action = [prompt |-> <<>>, system |-> UNDEF, text |-> <<>>, replace |-> FALSE]
    /\ defaults = [showModelInfo |-> "false", showPerformance |-> "false"]
    /\ AQuiet("off")

\* templates of plain text and selection markers
SelectionTokens == {<<"a">>, <<" ">>, <<"\n">>, SELECTION_KEYWORD}

SelectionTemplates == Concats(SelectionTokens, MaxTplTokens) \cup {UNDEF}

SelectionTexts == {UNDEF, <<>>, <<"b">>, <<" ">>, <<"$", "&">>, CONTEXT_KEYWORD}

ContextTexts == {UNDEF, <<>>, <<" ">>, <<"c">>}

\* templates of plain text, conditional delimiters and the context marker
ConditionTokens ==
    {<<"a">>, <<" ">>, CONTEXT_CONDITION_START, CONTEXT_CONDITION_END, CONTEXT_KEYWORD}

ConditionTemplates == Concats(ConditionTokens, MaxTplTokens)

ConditionSelections == {<<>>, <<"b">>, CONTEXT_CONDITION_END}

ConditionContexts == {<<>>, <<" ">>, <<"c">>}

\* templates of control markers with and without a value, and of the two
\* pieces "{{=SHOW_PERF" and "ORMANCE=}}=false" of a performance marker
PerfHead == SubSeq(SHOW_PERFORMANCE_KEYWORD, 1, 12)

PerfTailFalse == SubSeq(SHOW_PERFORMANCE_KEYWORD, 13, Len(SHOW_PERFORMANCE_KEYWORD)) \o EqFalse

ControlTokens ==
    {<<"a">>, EqFalse, SHOW_MODEL_INFO_KEYWORD,
     SHOW_MODEL_INFO_KEYWORD \o EqTrue, SHOW_MODEL_INFO_KEYWORD \o EqFalse,
     SHOW_PERFORMANCE_KEYWORD \o EqTrue, SHOW_PERFORMANCE_KEYWORD \o EqFalse,
     PerfHead, PerfTailFalse}

ControlTemplates == Concats(ControlTokens, MaxTplTokens)

ControlSelections ==
    {<<>>, <<"b">>, SHOW_MODEL_INFO_KEYWORD \o EqFalse, SHOW_PERFORMANCE_KEYWORD \o EqTrue}

ControlContexts == {<<>>, SHOW_MODEL_INFO_KEYWORD \o EqTrue}

\* templates of plain text, line feeds and the two tag markers
TagTokens == {<<"a">>, <<"\n">>, ALL_TAGS_KEYWORD, CURRENT_TAGS_KEYWORD}

TagTemplates == Concats(TagTokens, MaxTplTokens)

TagSelections == {<<>>, <<" ">>, <<"b">>, ALL_TAGS_KEYWORD}

\* the state before a call of preparePrompt in a vault with tags, the tags
\* of the current file being among them
InitTags ==
    /\ template \in TagTemplates
    /\ selectedText \in TagSelections
    /\ context = <<>>
    /\ app \in BOOLEAN
    /\ tagCount \in 0..MaxTags
    /\ fileTagCount \in 0..tagCount
    /\ pc = "call"
    /\ path = "sync"
    /\ result = InitialResult(<<>>)
    /\ env = [activeFile |-> FALSE, embedding |-> FALSE, mainProvider |-> FALSE,
              linked |-> 0, statusBar |-> "destroyed"]
    /\ action = [prompt |-> <<>>, system |-> UNDEF, text |-> <<>>, replace |-> FALSE]
    /\ defaults = [showModelInfo |-> "false", showPerformance |-> "false"]
    /\ AQuiet("off")

Init == PInit(SelectionTemplates, SelectionTexts, ContextTexts)

InitCondition == PInit(ConditionTemplates, ConditionSelections, ConditionContexts)

InitControl == PInit(ControlTemplates, ControlSelections, ControlContexts)

\* prompts of the actions that are run with context enhancement
ActionPrompts == {<<"a">>, SELECTION_KEYWORD, <<"a">> \o CONTEXT_KEYWORD}

\* the state when executeAction is called
InitAction ==
    /\ PQuiet
    /\ env \in [activeFile : BOOLEAN, embedding : BOOLEAN, mainProvider : BOOLEAN,
                 linked : 0..MaxLinked, statusBar : {"live", "destroyed"}]
    /\ action \in [prompt : ActionPrompts, system : {UNDEF}, text : {<<"b">>},
                   replace : BOOLEAN]
    /\ defaults = [showModelInfo |-> "false", showPerformance |-> "false"]
    /\ AQuiet("idle")

\* the state when executeAction is called while a second call of it is
\* about to start its context enhancement
InitTwo ==
    /\ PQuiet
    /\ env \in [activeFile : {TRUE}, embedding : {TRUE}, mainProvider : {TRUE},
                 linked : 1..MaxLinked, statusBar : {"live", "destroyed"}]
    /\ action \in [prompt : ActionPrompts, system : {UNDEF}, text : {<<"b">>},
                   replace : {FALSE}]
    /\ defaults = [showModelInfo |-> "false", showPerformance |-> "false"]
    /\ apc = "idle"
    /\ aborted = FALSE
    /\ bar = [shown |-> FALSE, total |-> 0, completed |-> 0]
    /\ calls = [init |-> 0, hide |-> 0, docs |-> 0, store |-> 0, query |-> 0]
    /\ enhanced = UNDEF
    /\ thrown = [step |-> "none", aborted |-> FALSE]
    /\ notices = {}
    /\ display = [showModelInfo |-> "unset", showPerformance |-> "unset"]
    /\ request = [issued |-> FALSE, prompt |-> UNDEF, systemPrompt |-> UNDEF]
    /\ failedAt = "none"
    /\ stream = [state |-> "none", chunks |-> 0, text |-> <<>>]
    /\ listener = FALSE
    /\ preview = <<>>
    /\ inserted = [done |-> FALSE, lastLine |-> FALSE, text |-> <<>>]
    /\ peer = [pc |-> "idle", aborted |-> FALSE]
    /\ links = NoLinks
    /\ estimate = NoEstimate
    /\ SQuiet

\* a link to a document, a link to an image, and the name of the image
DocLink == <<"[","[","n",".","m","d","]","]">>

ImageName == <<"i",".","p","n","g">>

ImageLink == <<"[","[">> \o ImageName \o <<"]","]">>

\* selected texts of plain characters, links and embeds ("!" before a link)
LinkTokens == {<<"a">>, <<"\n">>, <<"!">>, DocLink, ImageLink}

LinkTexts == Concats(LinkTokens, MaxLinkTokens)

\* the state when executeAction is called on a selected text with links
InitLinks ==
    /\ PQuiet
    /\ env = [activeFile |-> FALSE, embedding |-> FALSE, mainProvider |-> TRUE,
              linked |-> 0, statusBar |-> "destroyed"]
    /\ action \in [prompt : {<<"a">>}, system : {UNDEF}, text : LinkTexts,
                   replace : {FALSE}]
    /\ defaults = [showModelInfo |-> "false", showPerformance |-> "false"]
    /\ AQuiet("idle")

\* the state before estimateTokens is called
InitTokens ==
    /\ PQuiet
    /\ env = [activeFile |-> FALSE, embedding |-> FALSE, mainProvider |-> TRUE,
              linked |-> 0, statusBar |-> "destroyed"]
    /\ action = [prompt |-> <<>>, system |-> UNDEF, text |-> <<>>, replace |-> FALSE]
    /\ defaults = [showModelInfo |-> "false", showPerformance |-> "false"]
    /\ AQuiet("off")

\* the state when executeAction is about to call execute, with the display
\* options getDisplayOptions may have returned
InitOutput ==
    /\ PQuiet
    /\ env = [activeFile |-> FALSE, embedding |-> FALSE, mainProvider |-> TRUE,
              linked |-> 0, statusBar |-> "destroyed"]
    /\ action \in [prompt : {<<"a">>}, system : {UNDEF}, text : {<<"b">>},
                   replace : BOOLEAN]
    /\ defaults = [showModelInfo |-> "false", showPerformance |-> "false"]
    /\ apc = "execute"
    /\ aborted = FALSE
    /\ bar = [shown |-> FALSE, total |-> 0, completed |-> 0]
    /\ calls = [init |-> 0, hide |-> 0, docs |-> 0, store |-> 0, query |-> 0]
    /\ enhanced = <<>>
    /\ thrown = [step |-> "none", aborted |-> FALSE]
    /\ notices = {}
    /\ display \in [showModelInfo : {"true", "false"}, showPerformance : {"true", "false"}]
    /\ request = [issued |-> FALSE,
                  prompt |-> PreparePromptFn(action.prompt, action.text, <<>>,
                                             TRUE, 0, 0).prompt,
                  systemPrompt |-> UNDEF]
    /\ failedAt = "none"
    /\ stream = [state |-> "none", chunks |-> 0, text |-> <<>>]
    /\ listener = FALSE
    /\ preview = <<>>
    /\ inserted = [done |-> FALSE, lastLine |-> FALSE, text |-> <<>>]
    /\ peer = [pc |-> "off", aborted |-> FALSE]
    /\ links = ExtractImageLinks(action.text)
    /\ estimate = NoEstimate
    /\ SQuiet

\* prompts and system prompts of control markers with a value
OptionTokens ==
    {SHOW_MODEL_INFO_KEYWORD \o EqTrue, SHOW_MODEL_INFO_KEYWORD \o EqFalse,
     SHOW_PERFORMANCE_KEYWORD \o EqTrue, SHOW_PERFORMANCE_KEYWORD \o EqFalse}

OptionTemplates == Concats(OptionTokens, MaxOptTokens)

\* the state when executeAction reaches getDisplayOptions
InitDisplay ==
    /\ PQuiet
    /\ env = [activeFile |-> FALSE, embedding |-> FALSE, mainProvider |-> TRUE,
              linked |-> 0, statusBar |-> "destroyed"]
    /\ action \in [prompt : OptionTemplates, system : OptionTemplates \cup {UNDEF},
                    text : {<<"b">>}, replace : {FALSE}]
    /\ defaults \in [showModelInfo : {"true", "false"}, showPerformance : {"true", "false"}]
    /\ apc = "display"
    /\ aborted = FALSE
    /\ bar = [shown |-> FALSE, total |-> 0, completed |-> 0]
    /\ calls = [init |-> 0, hide |-> 0, docs |-> 0, store |-> 0, query |-> 0]
    /\ enhanced = <<>>
    /\ thrown = [step |-> "none", aborted |-> FALSE]
    /\ notices = {}
    /\ display = [showModelInfo |-> "unset", showPerformance |-> "unset"]
    /\ request = [issued |-> FALSE,
                  prompt |-> PreparePromptFn(action.prompt, action.text, <<>>,
                                             TRUE, 0, 0).prompt,
                  systemPrompt |-> IF Truthy(action.system)
                                   THEN PreparePromptFn(action.system, <<>>, <<>>,
                                                        TRUE, 0, 0).prompt
                                   ELSE UNDEF]
    /\ failedAt = "none"
    /\ links = ExtractImageLinks(action.text)
    /\ XQuiet

Next == PNext

\* preparePrompt on templates of text and selection markers, inputs possibly missing
Spec == Init /\ [][Next]_vars

\* preparePrompt on templates with conditional blocks
SpecCondition == InitCondition /\ [][Next]_vars

\* preparePrompt on templates with control markers
SpecControl == InitControl /\ [][Next]_vars

\* preparePrompt on templates with tag markers
SpecTags == InitTags /\ [][Next]_vars

\* executeAction from its call to the issue of the inference request
SpecAction == InitAction /\ [][ANext]_vars

\* getDisplayOptions on actions whose prompts hold control markers
SpecDisplay == InitDisplay /\ [][DNext]_vars

\* extractImageLinks on the selected text of an action
SpecLinks == InitLinks /\ [][LinksNext]_vars

\* estimateTokens on texts with code spans and Chinese characters
SpecTokens == InitTokens /\ [][TokensNext]_vars

\* the inference stream of an action and the insertion of its output
SpecOutput == InitOutput /\ [][OutNext]_vars

\* the context enhancement of two concurrent actions
SpecTwo == InitTwo /\ [][TwoNext]_vars

----------------------------------------------------------------------------
(* Vocabulary of the properties *)

\* the markers the resolver recognizes
RecognizedMarkers ==
    {SELECTION_KEYWORD, CONTEXT_KEYWORD, CONTEXT_CONDITION_START, CONTEXT_CONDITION_END,
     CURRENT_TIME_KEYWORD, SHOW_MODEL_INFO_KEYWORD, SHOW_PERFORMANCE_KEYWORD,
     ALL_TAGS_KEYWORD, CURRENT_TAGS_KEYWORD}

ControlMarkers == {SHOW_MODEL_INFO_KEYWORD, SHOW_PERFORMANCE_KEYWORD}

\* a text (or a missing text) in which no recognized marker occurs
MarkerFree(x) == x = UNDEF \/ \A k \in RecognizedMarkers : ~Includes(x, k)

\* a text (or a missing text) without an opening brace and without a dollar sign
PlainText(x) == x = UNDEF \/ \A i \in 1..Len(x) : x[i] \notin {"{", "$"}

\* the number of occurrences of k in s
CountOcc(s, k) == Cardinality({i \in 0..(Len(s) - Len(k)) : StartsAt(s, k, i)})

\* the non-empty parts joined by blank lines
RECURSIVE JoinNonEmpty(_)
JoinNonEmpty(parts) ==
    IF parts = <<>> THEN <<>>
    ELSE LET rest == JoinNonEmpty(Tail(parts))
         IN IF Head(parts) = <<>> THEN rest
            ELSE IF rest = <<>> THEN Head(parts)
            ELSE Head(parts) \o BlankLine \o rest

\* the flag ProcessResult carries for a control marker
FlagOf(r, kw) == IF kw = SHOW_MODEL_INFO_KEYWORD THEN r.showModelInfo ELSE r.showPerformance

\* a marker followed by =true or =false starts at offset i of t
ValuedAt(t, i) ==
    \E kw \in ControlMarkers : StartsAt(t, kw \o EqTrue, i) \/ StartsAt(t, kw \o EqFalse, i)

\* every opening brace of t is one of the two that open a control marker with a value
BracesOnlyInValuedMarkers(t) ==
    \A i \in 1..Len(t) : t[i] = "{" => (ValuedAt(t, i - 1) \/ ValuedAt(t, i - 2))

\* the value, "true" or "false", of the first kw=true / kw=false in t
FirstValue(t, kw) ==
    LET hits == {i \in 0..Len(t) : StartsAt(t, kw \o EqTrue, i) \/ StartsAt(t, kw \o EqFalse, i)}
        first == CHOOSE i \in hits : \A j \in hits : i <= j
    IN IF StartsAt(t, kw \o EqTrue, first) THEN "true" ELSE "false"

----------------------------------------------------------------------------
(* C1 *)

\* C1: when the template contains the selection marker, once or several times,
\* every occurrence is replaced, so no selection marker is left in the
\* resolved prompt (selectedText and contextText bring in no marker text).
C1_EverySelectionMarkerReplaced ==
    (pc = "done" /\ template # UNDEF /\ Includes(template, SELECTION_KEYWORD)
        /\ PlainText(selectedText) /\ PlainText(context))
    => ~Includes(result.prompt, SELECTION_KEYWORD)

----------------------------------------------------------------------------
(* C2 *)

\* C2 as stated: for a template without recognized markers the resolved prompt
\* is exactly the template, then a blank line and selectedText when selectedText
\* is non-empty, then a blank line and "Context:\n" + contextText when
\* contextText is non-empty after trimming.
C2_PlainAppendExact ==
    (pc = "done" /\ template # UNDEF /\ MarkerFree(template))
    => result.prompt =
          template
          \o (IF Truthy(selectedText) THEN BlankLine \o selectedText ELSE <<>>)
          \o (IF Trim(context) # <<>> THEN BlankLine \o ContextLabel \o context ELSE <<>>)

\* C2 amended: for a template without recognized markers, and selectedText and
\* contextText without recognized markers, the resolved prompt is the
\* whitespace-trimmed blank-line join of the non-empty ones among the template,
\* selectedText, and "Context:\n" + contextText when contextText is non-empty
\* after trimming; both flags are undefined.
C2_PlainAppendTrimmed ==
    (pc = "done" /\ template # UNDEF /\ MarkerFree(template)
        /\ MarkerFree(selectedText) /\ MarkerFree(context))
    => /\ result.prompt =
            Trim(JoinNonEmpty(<<template, OrEmpty(selectedText),
                                IF Trim(context) # <<>> THEN ContextLabel \o context ELSE <<>>>>))
       /\ result.showModelInfo = "undefined"
       /\ result.showPerformance = "undefined"

\* C2 witness: a template, a selection and a context are all appended
C2_Witness ==
    /\ pc = "done"
    /\ template = <<"a">>
    /\ selectedText = <<"b">>
    /\ context = <<"c">>
    /\ result.prompt = <<"a", "\n", "\n", "b", "\n", "\n">> \o ContextLabel \o <<"c">>

----------------------------------------------------------------------------
(* C3 *)

\* one start delimiter, one end delimiter, the start before the end
OneConditionalPair(t) ==
    /\ CountOcc(t, CONTEXT_CONDITION_START) = 1
    /\ CountOcc(t, CONTEXT_CONDITION_END) = 1
    /\ IndexOf(t, CONTEXT_CONDITION_START) < IndexOf(t, CONTEXT_CONDITION_END)

\* C3: for a template with one conditional pair, at any position including the
\* very beginning, the resolved prompt holds neither delimiter marker (the inner
\* content is kept without them, or the whole span collapses).
C3_DelimitersRemoved ==
    (pc = "done" /\ OneConditionalPair(template))
    => /\ ~Includes(result.prompt, CONTEXT_CONDITION_START)
       /\ ~Includes(result.prompt, CONTEXT_CONDITION_END)

----------------------------------------------------------------------------
(* C4 *)

----------------------------------------------------------------------------
(* C5 *)

\* C5: a flag is undefined whenever its own marker is absent from the
\* template, also when the other marker is present.
C5_AbsentMarkerUndefined ==
    pc = "done" =>
        \A kw \in ControlMarkers : ~Includes(template, kw) => FlagOf(result, kw) = "undefined"

----------------------------------------------------------------------------
(* C6 *)

\* the value of the first kw=true / kw=false in the text t, undefined when
\* t is missing or holds none
ExplicitValue(t, kw) ==
    IF Includes(t, kw \o EqTrue) \/ Includes(t, kw \o EqFalse)
    THEN FirstValue(t, kw)
    ELSE "undefined"

\* C6: the flag an action is run with is the first defined value in the order
\* system prompt, user prompt, default of the settings; a true or false given
\* in the system prompt wins over the user prompt and the default, one given
\* in the user prompt wins over the default.
C6_SystemThenPromptThenDefault ==
    apc \in {"execute", "streaming"} =>
        \A kw \in ControlMarkers :
            LET s == ExplicitValue(action.system, kw)
                u == ExplicitValue(action.prompt, kw)
            IN FlagOf(display, kw) =
                  IF s # "undefined" THEN s
                  ELSE IF u # "undefined" THEN u
                  ELSE FlagOf(defaults, kw)

\* C6 witness: the system prompt says false, the user prompt and the default true
C6_Witness ==
    /\ apc = "execute"
    /\ action.system = SHOW_MODEL_INFO_KEYWORD \o EqFalse
    /\ action.prompt = SHOW_MODEL_INFO_KEYWORD \o EqTrue
    /\ defaults.showModelInfo = "true"
    /\ display.showModelInfo = "false"

----------------------------------------------------------------------------
(* C7 *)

\* C7: the flags are those of the template alone, whatever selectedText and
\* contextText hold; a valued control marker that is only in selectedText sets
\* no flag and is still in the resolved prompt.
C7_FlagsFromTemplateOnly ==
    pc = "done" =>
        /\ \E alone \in {PreparePromptFn(template, <<>>, <<>>, app, 0, 0)} :
              /\ result.showModelInfo = alone.showModelInfo
              /\ result.showPerformance = alone.showPerformance
        /\ (~ControlCanProcess(template) /\ selectedText # <<>>)
             => /\ result.showModelInfo = "undefined"
                /\ result.showPerformance = "undefined"
                /\ Includes(result.prompt, selectedText)

\* C7 witness: the selection carries {{=SHOW_MODEL_INFO=}}=false, the template no marker
C7_Witness ==
    /\ pc = "done"
    /\ template = <<"a">>
    /\ selectedText = SHOW_MODEL_INFO_KEYWORD \o EqFalse
    /\ result.showModelInfo = "undefined"
    /\ Includes(result.prompt, SHOW_MODEL_INFO_KEYWORD \o EqFalse)

----------------------------------------------------------------------------
(* C8 *)

\* C8: prompt resolution never throws, also when selectedText or the context
\* is missing.
C8_NeverThrows == pc # "threw"

----------------------------------------------------------------------------
(* C9 *)

\* C9: with no active file, no embedding provider or no linked file,
\* enhanceWithContext returns "" in its first step: the progress bar is not
\* started, nothing is hidden or reported, and startProcessing,
\* createVectorStore and queryVectorStore are never called.
C9_FastPathReturnsEmpty ==
    (~env.activeFile \/ ~env.embedding \/ env.linked = 0) =>
        /\ calls = [init |-> 0, hide |-> 0, docs |-> 0, store |-> 0, query |-> 0]
        /\ ~bar.shown
        /\ "rag" \notin notices
        /\ apc \notin {"awaitDocs", "awaitStore", "awaitQuery"}
        /\ (apc \notin {"idle", "enhance"} => enhanced = <<>>)

\* C9 witness: a file and a provider but no linked file, "" has been returned
C9_Witness ==
    /\ env.activeFile /\ env.embedding /\ env.linked = 0
    /\ apc = "provider"
    /\ enhanced = <<>>
    /\ calls.init = 0

----------------------------------------------------------------------------
(* C10 *)

\* C10: when startProcessing, createVectorStore or queryVectorStore throws
\* while the signal is not aborted, the error is shown in a notice, it does
\* not reach the catch of executeAction, enhanceWithContext returns "", and
\* the request that executeAction prepares and issues carries the prompt
\* resolved with an empty context.
C10_RagErrorAbsorbed ==
    (thrown.step \in {"docs", "store", "query"} /\ ~thrown.aborted) =>
        /\ "rag" \in notices
        /\ failedAt # "enhance"
        /\ enhanced = <<>>
        /\ apc \in {"provider", "prepare", "display", "execute", "streaming", "done",
                    "failed"}
        /\ (apc = "failed" => ~env.mainProvider)
        /\ (apc \in {"display", "execute", "streaming", "done"}
              => request.prompt =
                    PreparePromptFn(action.prompt, action.text, <<>>, TRUE, 0, 0).prompt)
        /\ (apc \in {"streaming", "done"} => request.issued)

\* C10 witness: createVectorStore threw, the request went out without a context
C10_Witness ==
    /\ thrown = [step |-> "store", aborted |-> FALSE]
    /\ "rag" \in notices
    /\ request.issued
    /\ action.prompt = <<"a">> \o CONTEXT_KEYWORD
    /\ request.prompt = <<"a", "\n", "\n", "b">>

----------------------------------------------------------------------------
(* C11 *)

\* C11: no step taken while the signal of the action is aborted shows an
\* error notice (neither the catch of enhanceWithContext nor the handleError
\* of executeAction and of the stream), and when the signal is aborted while
\* createVectorStore is awaited, enhanceWithContext returns "".
C11_CancellationNotReported ==
    [][/\ (aborted => notices' = notices)
       /\ ((apc = "awaitStore" /\ aborted /\ apc' # "awaitStore")
             => (enhanced' = <<>> /\ apc' = "provider"))]_vars

\* C11 witness: Escape came while createVectorStore was awaited, the store
\* threw, the stream failed after abort(), and no notice was shown
C11_Witness ==
    /\ thrown = [step |-> "store", aborted |-> TRUE]
    /\ enhanced = <<>>
    /\ stream.state = "failed"
    /\ aborted
    /\ notices = {}

----------------------------------------------------------------------------
(* C12 *)

\* C12: when the signal is aborted at any point before enhanceWithContext
\* returns, the context it returns is "": no ranked or partial context is
\* returned for a cancelled operation.
C12_CancelledContextEmpty ==
    [][(aborted /\ enhanced = UNDEF /\ enhanced' # UNDEF) => enhanced' = <<>>]_vars

----------------------------------------------------------------------------
(* C13 *)

\* C13: once the signal of the action is aborted, at any time after
\* executeAction created it, the inference stream is never started or its
\* abort() is invoked, and no generated text is inserted into the editor.
C13_AbortStopsInference ==
    aborted => (stream.state \in {"none", "aborted", "failed"} /\ ~inserted.done)

----------------------------------------------------------------------------
(* C14 *)

\* C14: two actions running concurrently share no mutable state: while one
\* action is between its initializeProgress and its hideStatusBar, no step
\* of the other action changes the total and completed counts.
C14_NoSharedProgress ==
    [][/\ ((peer' # peer /\ apc \in {"awaitDocs", "awaitStore", "awaitQuery"})
             => (bar'.total = bar.total /\ bar'.completed = bar.completed))
       /\ ((apc' # apc /\ peer.pc = "awaitStore")
             => (bar'.total = bar.total /\ bar'.completed = bar.completed))]_vars

----------------------------------------------------------------------------
(* C15 *)

\* C15: between initializeProgress and the hide of the status bar, no call of
\* addTotalProgressSteps or updateCompletedSteps with a non-negative count
\* makes the completed steps or the target percentage smaller.
C15_ProgressNeverDecreases ==
    [][(apc = "awaitStore" /\ apc' = "awaitStore")
         => /\ bar'.completed >= bar.completed
            /\ TargetPercentage(bar') >= TargetPercentage(bar)]_vars

----------------------------------------------------------------------------
(* C16 *)

\* C16: the prompt preparePrompt returns never begins and never ends with
\* white space, on the synchronous path and on the asynchronous path, where
\* the tag markers are substituted after the first trim.
C16_PromptTrimmed ==
    pc = "done" =>
        \/ result.prompt = <<>>
        \/ /\ result.prompt[1] \notin WhiteSpace
           /\ result.prompt[Len(result.prompt)] \notin WhiteSpace

\* C16 witness: on the asynchronous path the all-tags marker at the end of
\* the template was replaced by lines that end with a line feed, and the
\* returned prompt ends with the last tag line
C16_Witness ==
    /\ pc = "done"
    /\ path = "async"
    /\ app
    /\ tagCount = 2
    /\ template = <<"\n", "a">> \o ALL_TAGS_KEYWORD
    /\ selectedText = <<>>
    /\ result.prompt = <<"a">> \o TrimEnd(GenerateTagTemplateVariable(2))

----------------------------------------------------------------------------
(* C17 *)

\* x is the end of t
IsSuffix(x, t) == Len(x) <= Len(t) /\ SubSeq(t, Len(t) - Len(x) + 1, Len(t)) = x

\* x begins, after white space, with a complete thinking block
BeginsWithThinking(x) ==
    /\ StartsAt(TrimStart(x), ThinkOpen, 0)
    /\ Includes(x, ThinkClose)

\* C17: the text inserted for a completed action holds the header line if
\* and only if showModelInfo is true, and the performance line if and only
\* if showPerformance is true; with both false only generated text is
\* inserted, and its thinking block is not.
C17_OutputFollowsFlags ==
    inserted.done =>
        /\ Includes(inserted.text, ModelInfoLine) <=> display.showModelInfo = "true"
        /\ Includes(inserted.text, PerformanceLine) <=> display.showPerformance = "true"
        /\ (display.showModelInfo = "false" /\ display.showPerformance = "false")
             => /\ IsSuffix(Trim(inserted.text), Trim(stream.text))
                /\ ~BeginsWithThinking(inserted.text)

----------------------------------------------------------------------------
(* C18 *)

\* n copies of the name of the image
RECURSIVE Copies(_, _)
Copies(x, n) == IF n = 0 THEN <<>> ELSE <<x>> \o Copies(x, n - 1)

\* C18: extractImageLinks returns the file name of each image link, in
\* order of appearance, and the cleaned text holds no image link while the
\* links to documents that are not images are all still there.
C18_ImageLinksExtracted ==
    links.done =>
        /\ links.fileNames = Copies(ImageName, CountOcc(action.text, ImageLink))
        /\ ~Includes(links.cleanedText, ImageLink)
        /\ CountOcc(links.cleanedText, DocLink) = CountOcc(action.text, DocLink)

----------------------------------------------------------------------------
(* C19 *)

\* C19: processGeneratedText returns "" when the generated text has no
\* visible content, and otherwise a line feed, c and a line feed, where c is
\* the non-empty text that remains after the leading thinking block is
\* removed and the rest is trimmed.
C19_ProcessedTextShape ==
    stream.chunks > 0 =>
        LET c == Trim(RemoveThinkingTags(stream.text))
        IN preview = IF c = <<>> THEN <<>> ELSE <<"\n">> \o c \o <<"\n">>

----------------------------------------------------------------------------
(* C20 *)

\* C20: the estimate of the empty text is 0, the estimate of a non-empty
\* text is positive, and the estimate of a text with more text after it is
\* never smaller than the estimate of the text.
C20_EstimateMonotone ==
    [][/\ (estimate'.text = <<>> => estimate'.tokens = 0)
       /\ ((estimate'.called /\ estimate'.text # <<>>) => estimate'.tokens > 0)
       /\ (estimate.called => estimate'.tokens >= estimate.tokens)]_vars

----------------------------------------------------------------------------
(* C21 *)

\* the delimiters of t do not form a block: one of them is missing, or the
\* first end marker comes before the first start marker
MismatchedDelimiters(t) ==
    \/ ~Includes(t, CONTEXT_CONDITION_START)
    \/ ~Includes(t, CONTEXT_CONDITION_END)
    \/ IndexOf(t, CONTEXT_CONDITION_END) < IndexOf(t, CONTEXT_CONDITION_START)

\* C21: a template with a delimiter but with mismatched or missing
\* conditional delimiters is resolved without throwing, and its delimiter
\* markers are all still in the resolved prompt.
C21_MismatchedLeftUntouched ==
    (/\ MismatchedDelimiters(template)
     /\ \/ Includes(template, CONTEXT_CONDITION_START)
        \/ Includes(template, CONTEXT_CONDITION_END))
    => /\ pc # "threw"
       /\ pc = "done" =>
            /\ CountOcc(result.prompt, CONTEXT_CONDITION_START)
                 >= CountOcc(template, CONTEXT_CONDITION_START)
            /\ CountOcc(result.prompt, CONTEXT_CONDITION_END)
                 >= CountOcc(template, CONTEXT_CONDITION_END)

----------------------------------------------------------------------------
(* C22 *)

\* C22: for a template without tag marker, and any selected text, the
\* asynchronous resolution that preparePrompt uses when an app handle is
\* supplied returns the prompt and the two flags that the synchronous
\* resolution of the same inputs returns.
C22_AsyncEqualsSync ==
    (pc = "done" /\ path = "async" /\ ~TagCanProcess(OrEmpty(template)))
    => result = ProcessSync(OrEmpty(template), selectedText, context)

\* ---------------------------------------------------------------------------
\* EventBus (core/EventBus.ts)
\* ---------------------------------------------------------------------------

\* everything but the event bus
nvars == <<container, tagCache, abortControllers, pvars, env, action, defaults, apc, aborted, bar, calls, enhanced, thrown,
           notices, display, request, failedAt, xvars, links, estimate>>

\* Set.prototype.delete on a set kept in insertion order
SetDelete(hs, h) ==
    LET Keep(x) == x # h IN SelectSeq(hs, Keep)

\* Set.prototype.add: a member is not added again
SetAdd(hs, h) ==
    IF \E i \in 1..Len(hs) : hs[i] = h THEN hs ELSE Append(hs, h)

\* off(event, handler) with a handler: the set of the event loses the very
\* function it is given, and the wrapper table loses it when it is a key; an
\* event without handlers is the same as an event that is not in the map
BusOff(b, event, handler) ==
    IF b.events[event] = <<>> THEN b
    ELSE [b EXCEPT !.events[event] = SetDelete(@, handler),
                   !.onceHandlers = IF handler \in @ THEN @ \ {handler} ELSE @]

\* on(event, handler)
BusOn(b, event, handler) ==
    [b EXCEPT !.events[event] = SetAdd(@, handler)]

\* the client calls that are made while no emit is in progress
BusIdle == bus.frames = <<>>

On ==
    /\ BusIdle
    /\ \E event \in EventNames, fn \in HandlerNames :
          LET handler == [fn |-> fn, once |-> 0]
          IN /\ Len(bus.events[event]) < MaxHandlers
             /\ bus' = [BusOn(bus, event, handler) EXCEPT
                           !.last = [op |-> "on", event |-> event, handler |-> handler]]
    /\ UNCHANGED nvars

\* once(event, handler): a new wrapper is made, noted in the wrapper table
\* under the wrapper, and registered with on
Once ==
    /\ BusIdle
    /\ bus.made < MaxOnce
    /\ \E event \in EventNames, fn \in HandlerNames :
          LET onceHandler == [fn |-> fn, once |-> bus.made + 1]
              noted == [bus EXCEPT !.onceHandlers = @ \cup {onceHandler},
                                   !.made = @ + 1]
          IN /\ Len(bus.events[event]) < MaxHandlers
             /\ bus' = [BusOn(noted, event, onceHandler) EXCEPT
                           !.last = [op |-> "once", event |-> event,
                                     handler |-> [fn |-> fn, once |-> 0]]]
    /\ UNCHANGED nvars

\* off(event, handler) called by a client with a function of its own, or the
\* unsubscriber that on and once returned (off with the registered function)
Off ==
    /\ BusIdle
    /\ \E event \in EventNames, handler \in Handlers :
          /\ handler.once <= bus.made
          /\ bus' = [BusOff(bus, event, handler) EXCEPT
                        !.last = [op |-> "off", event |-> event, handler |-> handler]]
    /\ UNCHANGED nvars

\* off(event) without a handler
OffEvent ==
    /\ BusIdle
    /\ \E event \in EventNames :
          /\ bus.events[event] # <<>>
          /\ bus' = [bus EXCEPT !.events[event] = <<>>,
                                !.last = [op |-> "offEvent", event |-> event,
                                          handler |-> [fn |-> "h", once |-> 0]]]
    /\ UNCHANGED nvars

\* emit(event): the handlers of the event are copied into handlersArray
Emit ==
    /\ BusIdle
    /\ bus.emits < MaxEmits
    /\ \E event \in EventNames :
          /\ bus.events[event] # <<>>
          /\ bus' = [bus EXCEPT !.frames = <<[event |-> event, rest |-> bus.events[event]]>>,
                                !.emits = @ + 1,
                                !.last = [op |-> "emit", event |-> event,
                                          handler |-> [fn |-> "h", once |-> 0]]]
    /\ UNCHANGED nvars

\* one turn of the loop of the innermost emit: the next handler of its
\* handlersArray is called. A wrapper first takes itself off and then calls the
\* client function; the client function "r" may emit an event itself, which
\* starts an emit inside the running one
EmitLoop ==
    /\ ~BusIdle
    /\ LET depth == Len(bus.frames)
           frame == bus.frames[depth]
       IN IF frame.rest = <<>>
          THEN bus' = [bus EXCEPT !.frames = SubSeq(@, 1, depth - 1)]
          ELSE LET handler == Head(frame.rest)
                   taken == [bus EXCEPT !.frames[depth].rest = Tail(@),
                                        !.invoked[handler] = @ + 1]
                   called == IF handler.once > 0
                             THEN BusOff(taken, frame.event, handler)
                             ELSE taken
               IN \/ bus' = called
                  \/ /\ handler.fn = "r"
                     /\ bus.emits < MaxEmits
                     /\ \E event \in EventNames :
                           /\ called.events[event] # <<>>
                           /\ bus' = [called EXCEPT
                                         !.frames = Append(@, [event |-> event,
                                                               rest |-> called.events[event]]),
                                         !.emits = @ + 1]
    /\ UNCHANGED nvars

\* clear()
Clear ==
    /\ BusIdle
    /\ bus.last.op # "clear"
    /\ bus' = [bus EXCEPT !.events = [e \in EventNames |-> <<>>],
                          !.onceHandlers = {},
                          !.last = [op |-> "clear", event |-> "e1",
                                    handler |-> [fn |-> "h", once |-> 0]]]
    /\ UNCHANGED nvars

BusNext == On \/ Once \/ Off \/ OffEvent \/ Emit \/ EmitLoop \/ Clear

\* nothing is running and the services are new
InitServices == InitTokens

SpecBus == InitServices /\ [][BusNext]_vars

\* ---------------------------------------------------------------------------
\* C23: a handler registered with once(event, h) is invoked at most once,
\* whatever emits follow, also emits made by a handler during an emit of the
\* same event: no wrapper made by once is called a second time
\* ---------------------------------------------------------------------------
C23_OnceInvokedAtMostOnce ==
    \A handler \in Handlers : handler.once > 0 => bus.invoked[handler] <= 1

\* ---------------------------------------------------------------------------
\* C24: off(event, h) with the function that was given to once(event, h) takes
\* the registration away: a call of off(event, h) made while a wrapper of h is
\* registered for the event leaves fewer wrappers of h registered for it
\* ---------------------------------------------------------------------------
WrappersOf(b, event, fn) ==
    {i \in 1..Len(b.events[event]) :
        b.events[event][i].fn = fn /\ b.events[event][i].once > 0}

C24_OffRemovesOnceHandler ==
    [][(/\ bus'.last.op = "off"
        /\ bus'.last.handler.once = 0
        /\ bus.frames = <<>>
        /\ bus' # bus
        /\ WrappersOf(bus, bus'.last.event, bus'.last.handler.fn) # {})
       => Cardinality(WrappersOf(bus', bus'.last.event, bus'.last.handler.fn))
            < Cardinality(WrappersOf(bus, bus'.last.event, bus'.last.handler.fn))]_vars

\* ---------------------------------------------------------------------------
\* ServiceContainer (core/ServiceContainer.ts)
\* ---------------------------------------------------------------------------

\* everything but the container
cvars == <<bus, tagCache, abortControllers, pvars, env, action, defaults, apc, aborted, bar, calls, enhanced, thrown,
           notices, display, request, failedAt, xvars, links, estimate>>

\* the finally block of get left out
Leave_Keep(c, token) == c

\* the finally block of get: this.resolving.delete(token)
Leave(c, token) == [c EXCEPT !.resolving = @ \ {token}]

\* get(token). A factory is modelled by the one token it gets from the
\* container it is handed (dep, or "none"), and it lets the error of that get
\* pass; what it builds is a new instance, numbered made + 1 and marked with
\* the id of the descriptor (the factory of registerInstance returns the
\* instance it was given). The result is the container after the call, the
\* outcome (a return or one of the two errors) and the value returned.
RECURSIVE ContainerGet(_, _)
ContainerGet(c, token) ==
    IF c.instances[token] # NoInstance
    THEN [c |-> c, outcome |-> "ok", value |-> c.instances[token]]
    ELSE IF c.services[token] = NoService
    THEN [c |-> c, outcome |-> "unregistered", value |-> NoInstance]
    ELSE IF token \in c.resolving
    THEN [c |-> c, outcome |-> "circular", value |-> NoInstance]
    ELSE LET descriptor == c.services[token]
             entered == [c EXCEPT !.resolving = @ \cup {token}]
             inner == IF descriptor.dep = "none"
                      THEN [c |-> entered, outcome |-> "ok", value |-> NoInstance]
                      ELSE CHOOSE r \in {ContainerGet(e, descriptor.dep) : e \in {entered}} : TRUE
         IN IF inner.outcome # "ok"
            THEN [c |-> Leave(inner.c, token), outcome |-> inner.outcome, value |-> NoInstance]
            ELSE LET fresh == descriptor.returns = NoInstance
                     instance == IF fresh
                                 THEN [by |-> descriptor.id, n |-> inner.c.made + 1]
                                 ELSE descriptor.returns
                     built == [inner.c EXCEPT
                                  !.made = IF fresh THEN @ + 1 ELSE @,
                                  !.invoked[token] = @ + 1,
                                  !.instances[token] = IF descriptor.singleton THEN instance ELSE @]
                 IN [c |-> Leave(built, token), outcome |-> "ok", value |-> instance]

\* register(token, factory, options)
Register ==
    /\ container.regs < MaxRegs
    /\ \E token \in Tokens, dep \in Tokens \cup {"none"}, singleton \in BOOLEAN :
          container' = [container EXCEPT
              !.services[token] = [id |-> container.regs + 1, dep |-> dep,
                                   singleton |-> singleton, returns |-> NoInstance],
              !.instances[token] = IF singleton /\ @ # NoInstance THEN NoInstance ELSE @,
              !.invoked[token] = 0,
              !.regs = @ + 1,
              !.last = [op |-> "register", token |-> token, outcome |-> "ok",
                        value |-> NoInstance]]
    /\ UNCHANGED cvars

\* registerInstance(token, instance)
RegisterInstance ==
    /\ container.regs < MaxRegs
    /\ container.made < MaxMade
    /\ \E token \in Tokens :
          LET instance == [by |-> container.regs + 1, n |-> container.made + 1]
          IN container' = [container EXCEPT
                 !.instances[token] = instance,
                 !.services[token] = [id |-> container.regs + 1, dep |-> "none",
                                      singleton |-> TRUE, returns |-> instance],
                 !.invoked[token] = 0,
                 !.regs = @ + 1,
                 !.made = @ + 1,
                 !.last = [op |-> "registerInstance", token |-> token, outcome |-> "ok",
                           value |-> instance]]
    /\ UNCHANGED cvars

\* a client calls get(token)
Get ==
    /\ \E token \in Tokens :
          LET r == CHOOSE x \in {ContainerGet(c, token) : c \in {container}} : TRUE
          IN /\ r.c.made <= MaxMade
             /\ container' = [r.c EXCEPT
                    !.last = [op |-> "get", token |-> token, outcome |-> r.outcome,
                              value |-> r.value]]
    /\ UNCHANGED cvars

\* clear()
ClearContainer ==
    /\ container.last.op # "clear"
    /\ container' = [container EXCEPT
           !.services = [t \in Tokens |-> NoService],
           !.instances = [t \in Tokens |-> NoInstance],
           !.resolving = {},
           !.invoked = [t \in Tokens |-> 0],
           !.last = [op |-> "clear", token |-> "A", outcome |-> "ok", value |-> NoInstance]]
    /\ UNCHANGED cvars

ContainerNext == Register \/ RegisterInstance \/ Get \/ ClearContainer

SpecContainer == InitServices /\ [][ContainerNext]_vars

\* ---------------------------------------------------------------------------
\* C25: get detects circular dependencies
\* ---------------------------------------------------------------------------

\* the token a factory asks for next: "missing" for a token without descriptor,
\* "ends" for a factory that asks for nothing
StepOf(c, t) ==
    IF t \notin Tokens THEN t
    ELSE IF c.services[t] = NoService THEN "missing"
    ELSE IF c.services[t].dep = "none" THEN "ends"
    ELSE c.services[t].dep

\* the same, where a token with a cached instance asks for nothing
StepUncached(c, t) ==
    IF t \in Tokens /\ c.instances[t] # NoInstance THEN "ends" ELSE StepOf(c, t)

\* where the dependencies lead from a token: a token again after as many steps
\* as there are tokens means that they go round in a cycle
RECURSIVE WalkOf(_, _, _)
WalkOf(c, t, k) == IF k = 0 THEN t ELSE WalkOf(c, StepOf(c, t), k - 1)

RECURSIVE WalkUncached(_, _, _)
WalkUncached(c, t, k) == IF k = 0 THEN t ELSE WalkUncached(c, StepUncached(c, t), k - 1)

\* C25 as stated: after get(token), the resolving set is empty; when the
\* factories reached from the token depend on each other in a cycle the call
\* threw the circular-dependency error; when the token is not registered it
\* threw the not-registered error; and a registered token whose dependencies
\* end is returned
C25_CircularDetected ==
    container.last.op = "get" =>
        LET end == WalkOf(container, container.last.token, Cardinality(Tokens))
        IN /\ container.resolving = {}
           /\ end \in Tokens => container.last.outcome = "circular"
           /\ container.services[container.last.token] = NoService
                => container.last.outcome = "unregistered"
           /\ end = "ends" => container.last.outcome = "ok"

\* C25 amended: the cycle is found when it is reached through tokens that have
\* no cached instance. After every get the resolving set is empty; get throws
\* the circular-dependency error exactly when the dependencies, followed from
\* the token through uncached tokens, come round; it throws the not-registered
\* error exactly when they reach a token without descriptor; otherwise it
\* returns
C25_CircularDetectedUncached ==
    [][(container'.last.op = "get" /\ container' # container) =>
          LET end == WalkUncached(container, container'.last.token, Cardinality(Tokens))
          IN /\ container'.resolving = {}
             /\ end \in Tokens <=> container'.last.outcome = "circular"
             /\ end = "missing" <=> container'.last.outcome = "unregistered"
             /\ end = "ends" <=> container'.last.outcome = "ok"]_vars

\* a get that threw the circular-dependency error out of a cycle of two
\* factories, and left the resolving set empty
C25_Witness ==
    /\ container.last.op = "get"
    /\ container.last.outcome = "circular"
    /\ container.last.token = "A"
    /\ container.services["A"].dep = "B"
    /\ container.services["B"].dep = "A"
    /\ container.resolving = {}

\* ---------------------------------------------------------------------------
\* C26: singleton and transient services. After register(token, factory,
\* {singleton: false}) a get(token) that returns has invoked that factory and
\* returns what it has just built, whatever was registered or cached before;
\* the factory of a singleton is invoked at most once, and a get(token) that
\* returns gives the instance of that factory that the container holds
\* ---------------------------------------------------------------------------
C26_TransientFresh ==
    (/\ container.last.op = "get"
     /\ container.last.outcome = "ok"
     /\ ~container.services[container.last.token].singleton)
    => /\ container.last.value.by = container.services[container.last.token].id
       /\ container.last.value.n = container.made
       /\ container.invoked[container.last.token] >= 1

C26_SingletonOnce ==
    /\ \A t \in Tokens :
          container.services[t].singleton => container.invoked[t] <= 1
    /\ (/\ container.last.op = "get"
        /\ container.last.outcome = "ok"
        /\ container.services[container.last.token].singleton)
       => /\ container.last.value = container.instances[container.last.token]
          /\ container.last.value.by = container.services[container.last.token].id

C26_SingletonAndTransient == C26_TransientFresh /\ C26_SingletonOnce

\* ---------------------------------------------------------------------------
\* The tag statistics cache (tagManager.ts)
\* ---------------------------------------------------------------------------

\* everything but the tag cache
tvars == <<bus, container, abortControllers, pvars, env, action, defaults, apc, aborted, bar, calls,
           enhanced, thrown, notices, display, request, failedAt, xvars, links, estimate>>

\* the markdown files a vault may hold, their paths and their tags, and the
\* folders a caller may exclude
Files == {"1", "2"}

FilePath(f) == IF f = "1" THEN <<"a", "/", "1">> ELSE <<"b", "/", "2">>

FileTags(f) == IF f = "1" THEN {"x"} ELSE {"x", "y"}

Folders == {<<"a">>, <<"b">>}

\* the loop over the files: a file under an excluded folder is skipped, every
\* tag of the other files is counted once per file
ScanTags(files, excludeFolders) ==
    LET counted == {f \in files :
                       ~\E folder \in excludeFolders : StartsAt(FilePath(f), folder, 0)}
    IN [t \in TagNames |-> Cardinality({f \in counted : t \in FileTags(f)})]

\* getAllTagStats(app, excludeFolders, forceRefresh): the cache after the call
\* and the value returned
GetAllTagStats(tc, excludeFolders, forceRefresh) ==
    IF tc.cache.set /\ ~forceRefresh
    THEN [cache |-> tc.cache, result |-> tc.cache.stats]
    ELSE IF tc.vault = {}
    THEN [cache |-> tc.cache, result |-> EmptyStats]
    ELSE LET tagStats == ScanTags(tc.vault, excludeFolders)
         IN [cache |-> [set |-> TRUE, stats |-> tagStats], result |-> tagStats]

GetAllTagStatsCall ==
    /\ \E excludeFolders \in SUBSET Folders, forceRefresh \in BOOLEAN :
          LET r == GetAllTagStats(tagCache, excludeFolders, forceRefresh)
          IN tagCache' = [tagCache EXCEPT
                 !.cache = r.cache,
                 !.prev = tagCache.last,
                 !.last = [op |-> "get", exclude |-> excludeFolders,
                           force |-> forceRefresh, result |-> r.result]]
    /\ UNCHANGED tvars

\* clearTagCache()
ClearTagCache ==
    /\ tagCache.last.op # "clear"
    /\ tagCache' = [tagCache EXCEPT
           !.cache = [set |-> FALSE, stats |-> EmptyStats],
           !.prev = tagCache.last,
           !.last = [NoTagCall EXCEPT !.op = "clear"]]
    /\ UNCHANGED tvars

\* the user creates or deletes a markdown file
VaultChange ==
    /\ \E f \in Files :
          tagCache' = [tagCache EXCEPT
              !.vault = IF f \in @ THEN @ \ {f} ELSE @ \cup {f},
              !.prev = tagCache.last,
              !.last = [NoTagCall EXCEPT !.op = "vault"]]
    /\ UNCHANGED tvars

TagCacheNext == GetAllTagStatsCall \/ ClearTagCache \/ VaultChange

SpecTagCache == InitServices /\ [][TagCacheNext]_vars

\* ---------------------------------------------------------------------------
\* C27: getAllTagStats returns the tag counts of the files that are not under
\* a folder of the excludeFolders of that call, also when the result comes
\* from the cache; and a non-forced call that follows a forced call with the
\* same excludeFolders returns what the forced call returned
\* ---------------------------------------------------------------------------
C27_ResultIsFreshScan ==
    tagCache.last.op = "get"
        => tagCache.last.result = ScanTags(tagCache.vault, tagCache.last.exclude)

C27_ForcedThenCached ==
    (/\ tagCache.last.op = "get"
     /\ ~tagCache.last.force
     /\ tagCache.prev.op = "get"
     /\ tagCache.prev.force
     /\ tagCache.prev.exclude = tagCache.last.exclude)
    => tagCache.last.result = tagCache.prev.result

C27_CacheMatchesArguments == C27_ResultIsFreshScan /\ C27_ForcedThenCached

\* ---------------------------------------------------------------------------
\* The life cycle of the plugin (main.ts)
\* ---------------------------------------------------------------------------

\* new StatusBarManager(host): the item is added to the status bar
NewStatusBarManager == "live"

\* onunload: if (this.statusBarManager) this.statusBarManager.destroy(), which
\* removes the item and sets statusBarItem to undefined
OnunloadStatusBar(item) == IF item = "none" THEN "none" ELSE "destroyed"

\* initializeStatusBar() has an empty body
InitializeStatusBar(item) == item

\* onload: initializeServices takes the StatusBarManager from the container,
\* reload() runs onunload() and empties abortControllers, and
\* initializeStatusBar() follows
Onload ==
    /\ apc = "constructed"
    /\ env' = [env EXCEPT
                  !.statusBar = InitializeStatusBar(OnunloadStatusBar(NewStatusBarManager))]
    /\ abortControllers' = <<>>
    /\ apc' = "idle"
    /\ UNCHANGED <<action, defaults, aborted, bar, calls, enhanced, thrown, notices,
                   display, request, failedAt>>
    /\ UNCHANGED xvars
    /\ UNCHANGED <<links, estimate, kvars>>
    /\ UNCHANGED pvars

\* saveSettings: reload() runs onunload() and empties abortControllers
SaveSettings ==
    /\ apc # "constructed"
    /\ env' = [env EXCEPT !.statusBar = OnunloadStatusBar(@)]
    /\ abortControllers' = <<>>
    /\ UNCHANGED <<action, defaults, apc, aborted, bar, calls, enhanced, thrown, notices,
                   display, request, failedAt>>
    /\ UNCHANGED xvars
    /\ UNCHANGED <<links, estimate, kvars>>
    /\ UNCHANGED pvars

\* the plugin object has been constructed, onload has not run
InitLifecycle ==
    /\ PQuiet
    /\ env \in [activeFile : BOOLEAN, embedding : BOOLEAN, mainProvider : BOOLEAN,
                 linked : 0..MaxLinked, statusBar : {"none"}]
    /\ action \in [prompt : ActionPrompts, system : {UNDEF}, text : {<<"b">>},
                   replace : BOOLEAN]
    /\ defaults = [showModelInfo |-> "false", showPerformance |-> "false"]
    /\ AQuiet("constructed")

\* onload, saveSettings, and runAction up to the start of the enhancement
LifecycleNext == Onload \/ SaveSettings \/ ExecStart \/ EnhanceEnter

SpecLifecycle == InitLifecycle /\ [][LifecycleNext]_vars

\* ---------------------------------------------------------------------------
\* C28: over onload, reload, saveSettings and runAction the status bar manager
\* is live: once the plugin is loaded its status bar item exists, and
\* initializeProgress is never called on a manager whose destroy() has run
\* ---------------------------------------------------------------------------
C28_StatusBarLive ==
    /\ apc # "constructed" => env.statusBar = "live"
    /\ thrown.step # "progress"

\* ---------------------------------------------------------------------------
\* C29: abortControllers holds only the controllers of the actions in flight:
\* the controller of the action is in the list while it runs and has not been
\* cancelled, it is not in the list once the action has completed or failed,
\* and after Escape the list is empty and the controller is aborted
\* ---------------------------------------------------------------------------
C29_InFlightListed ==
    (apc \in {"enhance", "awaitDocs", "awaitStore", "awaitQuery", "provider", "prepare",
              "display", "execute", "streaming"} /\ ~aborted)
    => abortControllers = <<"own">>

C29_EscapeEmpties ==
    [][(aborted' /\ ~aborted) => abortControllers' = <<>>]_vars

C29_OnlyInFlightControllers ==
    /\ C29_InFlightListed
    /\ aborted => ~InList(abortControllers, "own")
    /\ apc \in {"done", "failed"} => ~InList(abortControllers, "own")

\* ---------------------------------------------------------------------------
\* C30: on every return path of enhanceWithContext taken after
\* initializeProgress() was called, hideStatusBar() has been called before the
\* return, and the progress indicator is not visible afterwards
\* ---------------------------------------------------------------------------
C30_HiddenOnEveryReturn ==
    (calls.init > 0 /\ (enhanced # UNDEF \/ apc = "failed"))
    => /\ calls.hide > 0
       /\ ~bar.shown

\* enhanceWithContext has returned a context that is not empty, after
\* initializeProgress and after hideStatusBar
C30_Witness ==
    /\ calls.init > 0
    /\ enhanced # UNDEF
    /\ Len(enhanced) > 0
    /\ calls.hide > 0
    /\ ~bar.shown

====
